---- MODULE Spec2Model ----
(***************************************************************************)
(* The dialogue-intelligence core of decisiongpt: the conversation phase   *)
(* state machine, the pattern merge, and the generate-validate-regenerate  *)
(* loop of PsychologistEngine.process_message, driven the way              *)
(* ChatService._handle_clarify_message drives it (state loaded from the    *)
(* node, saved back only when the engine returns).                         *)
(*                                                                         *)
(* Texts are sequences of one-character strings, so that the string        *)
(* operations of the validator and of the mechanical fixes are computed,   *)
(* not assumed.                                                            *)
(***************************************************************************)
EXTENDS Integers, Sequences, FiniteSets, TLC

VARIABLES
    stored,        \* node.conversation_state_json: the state persisted between turns
    state,         \* the PsychologistConversationState object handed to process_message
    pc,            \* where the turn is: "idle", "enrich", "generate", "failed"
    analysis,      \* analyze_message's local `result` while the enrichment call is awaited
    attempt,       \* the loop variable of _generate_validated_response
    issues,        \* the issue list of the latest validation of this turn
    gen_calls,     \* calls of ai.generate issued by the regeneration loop in this turn
    enrich_calls,  \* calls of ai.generate issued by the pattern detector in this turn
    response       \* process_message's local `response`: the reply the loop gave back,
                   \* <<>> until then

vars == <<stored, state, pc, analysis, attempt, issues, gen_calls,
          enrich_calls, response>>

None == "None"

\* How many user turns Spec follows.
MaxTurns == 4

\* How many user turns SpecLoop follows.
LoopTurns == 1

\* How many user turns SpecMoves follows.
MoveTurns == 4

\* How many user turns SpecThreads follows.
ThreadTurns == 2

\* How many user turns SpecObs follows.
ObsTurns == 3

\* turns of a conversation under SpecRules
RulesTurns == 3

\* turns of a conversation under SpecLabel
LabelTurns == 3

\* turns of a conversation under SpecConcurrent
ConcurrentTurns == 2

\* turns of a conversation under SpecFix
FixTurns == 3

\* turns of a conversation under SpecChallenge
ChallengeTurns == 4

\* turns of a conversation under SpecLong
LongTurns == 16

\* turns of a conversation under SpecTrack
TrackTurns == 3

\* exchange numbers (current and last touched) of the scored threads
ScoreExchanges == 2

\* exploration depths of the scored threads
ScoreDepth == 3

\* turns of a conversation under SpecDepth
DepthTurns == 5

---------------------------------------------------------------------------
(* Text helpers: Python str operations on sequences of characters.         *)

UpperChars == <<"A","B","C","D","E","F","G","H","I","J","K","L","M",
                "N","O","P","Q","R","S","T","U","V","W","X","Y","Z">>
LowerChars == <<"a","b","c","d","e","f","g","h","i","j","k","l","m",
                "n","o","p","q","r","s","t","u","v","w","x","y","z">>

\* str.lower(), one character
LowerChar(c) ==
    IF \E i \in 1..Len(UpperChars) : UpperChars[i] = c
    THEN LowerChars[CHOOSE i \in 1..Len(UpperChars) : UpperChars[i] = c]
    ELSE c

\* str.lower()
Lower(t) == [i \in 1..Len(t) |-> LowerChar(t[i])]

\* str.startswith(p)
StartsWith(t, p) == Len(t) >= Len(p) /\ SubSeq(t, 1, Len(p)) = p

\* p in t
Contains(t, p) ==
    \E i \in 1..(Len(t) - Len(p) + 1) : SubSeq(t, i, i + Len(p) - 1) = p

\* str.count(c) for a single character c
CountChar(t, c) == Cardinality({i \in 1..Len(t) : t[i] = c})

\* \s of the alphabet used here
IsSpace(c) == c = " "

\* \w of the alphabet used here
IsWordChar(c) ==
    \/ \E i \in 1..Len(LowerChars) : LowerChars[i] = c \/ UpperChars[i] = c
    \/ c = "_"

\* t[n:]
DropFirst(t, n) == IF n >= Len(t) THEN <<>> ELSE SubSeq(t, n + 1, Len(t))

\* str.strip()
Strip(t) ==
    LET keep == {i \in 1..Len(t) : ~IsSpace(t[i])}
    IN  IF keep = {} THEN <<>>
        ELSE LET lo == CHOOSE i \in keep : \A j \in keep : i <= j
                 hi == CHOOSE i \in keep : \A j \in keep : i >= j
             IN  SubSeq(t, lo, hi)

\* sep.join(parts)
RECURSIVE Join(_, _)
Join(parts, sep) ==
    IF Len(parts) = 0 THEN <<>>
    ELSE IF Len(parts) = 1 THEN parts[1]
    ELSE parts[1] \o sep \o Join(Tail(parts), sep)

\* re.split(r"(?<=[.?!])\s+", t): cut at every run of whitespace that
\* directly follows '.', '?' or '!'; the run itself is dropped.
RECURSIVE SplitSentences(_)
SplitSentences(t) ==
    LET starts == {i \in 2..Len(t) :
                      IsSpace(t[i]) /\ t[i - 1] \in {".", "?", "!"}}
    IN  IF starts = {} THEN <<t>>
        ELSE LET i == CHOOSE k \in starts : \A m \in starts : k <= m
                 after == {k \in (i + 1)..Len(t) : ~IsSpace(t[k])}
                 j == IF after = {} THEN Len(t) + 1
                      ELSE CHOOSE k \in after : \A m \in after : k <= m
             IN  <<SubSeq(t, 1, i - 1)>> \o SplitSentences(DropFirst(t, j - 1))

\* str.split(): the whitespace-separated words
RECURSIVE SplitWords(_)
SplitWords(t) ==
    LET s == Strip(t)
        sp == {i \in 1..Len(s) : IsSpace(s[i])}
    IN  IF s = <<>> THEN <<>>
        ELSE IF sp = {} THEN <<s>>
        ELSE LET i == CHOOSE k \in sp : \A m \in sp : k <= m
             IN  <<SubSeq(s, 1, i - 1)>> \o SplitWords(DropFirst(s, i))

\* the elements of a sequence
Range(seq) == {seq[i] : i \in 1..Len(seq)}

---------------------------------------------------------------------------
(* The texts the model uses: user messages, topics, replies, move labels   *)
(* and the phrases the validator looks for.                                *)

\* 'ok.'
Msg_ok == <<"o","k",".">>

\* 'I feel trapped. I wish for peace.'
Msg_trapped == <<"I"," ","f","e","e","l"," ","t","r","a","p","p","e","d",".",
    " ","I"," ","w","i","s","h"," ","f","o","r"," ","p","e","a","c","e",".">>

\* 'I should rest but I am trapped'
Msg_should == <<"I"," ","s","h","o","u","l","d"," ","r","e","s","t"," ","b",
    "u","t"," ","I"," ","a","m"," ","t","r","a","p","p","e","d">>

\* 'feeling trapped'
Topic_feeling_trapped == <<"f","e","e","l","i","n","g"," ","t","r","a","p",
    "p","e","d">>

\* 'values for peace'
Topic_values_peace == <<"v","a","l","u","e","s"," ","f","o","r"," ","p","e",
    "a","c","e">>

\* 'Feeling Trapped'
Topic_Feeling_Trapped_ai == <<"F","e","e","l","i","n","g"," ","T","r","a","p",
    "p","e","d">>

\* 'feeling trapped again'
Topic_feeling_trapped_again == <<"f","e","e","l","i","n","g"," ","t","r","a",
    "p","p","e","d"," ","a","g","a","i","n">>

\* 'feeling stuck'
Topic_feeling_stuck == <<"f","e","e","l","i","n","g"," ","s","t","u","c","k">>

\* 'fear of change'
Topic_fear_of_change == <<"f","e","a","r"," ","o","f"," ","c","h","a","n","g",
    "e">>

\* 'User shows internal conflict: feels they should but'
Obs_should_but == <<"U","s","e","r"," ","s","h","o","w","s"," ","i","n","t",
    "e","r","n","a","l"," ","c","o","n","f","l","i","c","t",":"," ","f","e",
    "e","l","s"," ","t","h","e","y"," ","s","h","o","u","l","d"," ","b","u",
    "t">>

\* 'Avoids deciding'
Obs_avoids == <<"A","v","o","i","d","s"," ","d","e","c","i","d","i","n","g">>

\* 'AVOIDS DECIDING'
Obs_Avoids_ai == <<"A","V","O","I","D","S"," ","D","E","C","I","D","I","N",
    "G">>

\* 'I see.'
Txt_i_see == <<"I"," ","s","e","e",".">>

\* 'Why?'
Txt_why == <<"W","h","y","?">>

\* 'Why? How?'
Txt_why_how == <<"W","h","y","?"," ","H","o","w","?">>

\* 'Ok. Why? How?'
Txt_ok_why_how == <<"O","k","."," ","W","h","y","?"," ","H","o","w","?">>

\* 'Understood. Why?'
Txt_understood_why == <<"U","n","d","e","r","s","t","o","o","d","."," ","W",
    "h","y","?">>

\* 'Got it. Why? How?'
Txt_got_it_why_how == <<"G","o","t"," ","i","t","."," ","W","h","y","?"," ",
    "H","o","w","?">>

\* 'Why? Understood. How?'
Txt_why_understood_how == <<"W","h","y","?"," ","U","n","d","e","r","s","t",
    "o","o","d","."," ","H","o","w","?">>

\* 'So far ok.'
Txt_so_far == <<"S","o"," ","f","a","r"," ","o","k",".">>

\* 'What kind of job?'
Txt_what_kind == <<"W","h","a","t"," ","k","i","n","d"," ","o","f"," ","j",
    "o","b","?">>

\* 'Say what kind of job.'
Txt_say_what_kind == <<"S","a","y"," ","w","h","a","t"," ","k","i","n","d",
    " ","o","f"," ","j","o","b",".">>

\* 'reflection'
Label_reflection == <<"r","e","f","l","e","c","t","i","o","n">>

\* 'observation'
Label_observation == <<"o","b","s","e","r","v","a","t","i","o","n">>

\* 'challenge'
Label_challenge == <<"c","h","a","l","l","e","n","g","e">>

\* 'deepening_question'
Label_deepening_question == <<"d","e","e","p","e","n","i","n","g","_","q","u",
    "e","s","t","i","o","n">>

\* 'synthesis'
Label_synthesis == <<"s","y","n","t","h","e","s","i","s">>

\* 'insight'
Label_insight == <<"i","n","s","i","g","h","t">>

\* 'transition'
Label_transition == <<"t","r","a","n","s","i","t","i","o","n">>

\* 'Deepening-Question'
Label_Deepening_Question_dash == <<"D","e","e","p","e","n","i","n","g","-",
    "Q","u","e","s","t","i","o","n">>

\* 'probe'
Label_probe == <<"p","r","o","b","e">>

\* 'understood'
S_understood == <<"u","n","d","e","r","s","t","o","o","d">>

\* 'got it'
S_got_it == <<"g","o","t"," ","i","t">>

\* 'what kind of'
P_kind == <<"w","h","a","t"," ","k","i","n","d"," ","o","f">>

\* 'what type of'
P_type == <<"w","h","a","t"," ","t","y","p","e"," ","o","f">>

\* 'what category of'
P_category == <<"w","h","a","t"," ","c","a","t","e","g","o","r","y"," ","o",
    "f">>

\* 'would you prefer a'
P_prefer_a == <<"w","o","u","l","d"," ","y","o","u"," ","p","r","e","f","e",
    "r"," ","a">>

\* 'would you prefer b'
P_prefer_b == <<"w","o","u","l","d"," ","y","o","u"," ","p","r","e","f","e",
    "r"," ","b">>

\* 'would you prefer c'
P_prefer_c == <<"w","o","u","l","d"," ","y","o","u"," ","p","r","e","f","e",
    "r"," ","c">>

\* 'which of these'
P_which_of_these == <<"w","h","i","c","h"," ","o","f"," ","t","h","e","s",
    "e">>

\* 'what new '
P_what_new == <<"w","h","a","t"," ","n","e","w"," ">>

\* ' would you'
P_would_you == <<" ","w","o","u","l","d"," ","y","o","u">>

\* 'understood.'
P_understood_dot == <<"u","n","d","e","r","s","t","o","o","d",".">>

\* 'got it.'
P_got_it_dot == <<"g","o","t"," ","i","t",".">>

\* 'so far'
Ind_so_far == <<"s","o"," ","f","a","r">>

\* 'understanding that'
Ind_understanding_that == <<"u","n","d","e","r","s","t","a","n","d","i","n",
    "g"," ","t","h","a","t">>

\* "i'm hearing"
Ind_im_hearing == <<"i","'","m"," ","h","e","a","r","i","n","g">>

\* 'let me check'
Ind_let_me_check == <<"l","e","t"," ","m","e"," ","c","h","e","c","k">>

\* "what i'm getting"
Ind_what_im_getting == <<"w","h","a","t"," ","i","'","m"," ","g","e","t","t",
    "i","n","g">>

\* 'to summarize'
Ind_to_summarize == <<"t","o"," ","s","u","m","m","a","r","i","z","e">>

---------------------------------------------------------------------------
(* psychologist_state.py: phases, moves and the conversation state.        *)

\* ConversationPhase, in the order get_next_phase walks it
phase_order == <<"opening", "exploration", "deepening", "insight", "closing">>

PhaseIndex(p) == CHOOSE i \in 1..Len(phase_order) : phase_order[i] = p

\* ResponseMove
ResponseMoves == {"reflection", "observation", "challenge", "deepening_question",
                  "synthesis", "insight", "transition"}

\* create_initial_state() / PsychologistConversationState()
create_initial_state ==
    [ current_phase           |-> "opening",
      phase_exchange_count    |-> 0,
      total_exchange_count    |-> 0,
      active_threads          |-> <<>>,
      completed_threads       |-> <<>>,
      observations            |-> <<>>,
      last_synthesis_exchange |-> 0,
      synthesis_points        |-> <<>>,
      last_move               |-> None,
      move_history            |-> <<>>,
      dominant_emotion        |-> None,
      core_issue_identified   |-> FALSE,
      core_issue_statement    |-> None,
      ready_for_options       |-> FALSE,
      transition_reason       |-> None ]

\* the intensity table with critical scored as high
intensity_scores_critical_as_high(e) ==
    CASE e = "low"      -> 20
      [] e = "medium"   -> 50
      [] e = "high"     -> 80
      [] e = "critical" -> 80

\* Thread.compute_priority_score: intensity_scores
intensity_scores(e) ==
    CASE e = "low"      -> 20
      [] e = "medium"   -> 50
      [] e = "high"     -> 80
      [] e = "critical" -> 100

Max(a, b) == IF a >= b THEN a ELSE b

\* Thread.compute_priority_score, in hundredths of a point: the weights
\* 0.35, 0.30, 0.20, 0.15 are 35, 30, 20, 15, and relevance_score * 100 is
\* the relevance in hundredths that the threads carry
compute_priority_score(thread, current_exchange) ==
    LET intensity       == intensity_scores(thread.emotional_intensity)
        relevance       == thread.relevance_score
        unexplored      == Max(0, 100 - (thread.exploration_depth * 40))
        exchanges_since == current_exchange - thread.last_touched_exchange
        recency         == Max(0, 100 - (exchanges_since * 20))
    IN  intensity * 35 + relevance * 30 + unexplored * 20 + recency * 15

\* get_highest_priority_thread choosing among every tracked thread
get_highest_priority_thread_any(s) ==
    LET idx == 1..Len(s.active_threads)
        score(i) == compute_priority_score(s.active_threads[i],
                                           s.total_exchange_count)
    IN  IF idx = {} THEN <<>>
        ELSE << s.active_threads[
                  CHOOSE i \in idx : \A j \in idx :
                      \/ score(i) > score(j)
                      \/ score(i) = score(j) /\ i <= j ] >>

\* get_highest_priority_thread: <<>> for None, <<thread>> otherwise; max()
\* returns the first of the threads with the highest score
get_highest_priority_thread(s) ==
    LET idx == { i \in 1..Len(s.active_threads) :
                   \A k \in 1..Len(s.completed_threads) :
                       s.completed_threads[k] # s.active_threads[i].id }
        score(i) == compute_priority_score(s.active_threads[i],
                                           s.total_exchange_count)
    IN  IF idx = {} THEN <<>>
        ELSE << s.active_threads[
                  CHOOSE i \in idx : \A j \in idx :
                      \/ score(i) > score(j)
                      \/ score(i) = score(j) /\ i <= j ] >>

\* needs_synthesis asking for the next synthesis only once one was given
needs_synthesis_after_first(s) ==
    /\ s.last_synthesis_exchange > 0
    /\ s.total_exchange_count - s.last_synthesis_exchange >= 3

\* needs_synthesis asking for a synthesis every 2 exchanges
needs_synthesis_every_two(s) ==
    s.total_exchange_count - s.last_synthesis_exchange >= 2

\* needs_synthesis counting from the exchange after the last synthesis
needs_synthesis_late(s) ==
    s.total_exchange_count - s.last_synthesis_exchange > 3

\* needs_synthesis
needs_synthesis(s) == s.total_exchange_count - s.last_synthesis_exchange >= 3

\* get_unsurfaced_observations without the confidence threshold
get_unsurfaced_observations_any(s) ==
    {i \in 1..Len(s.observations) : ~s.observations[i].surfaced}

\* get_unsurfaced_observations: the positions, in list order
get_unsurfaced_observations(s) ==
    {i \in 1..Len(s.observations) :
        ~s.observations[i].surfaced /\ s.observations[i].confidence >= 60}

\* move_history[-n:] taken one entry short
LastN_short(seq, n) ==
    IF Len(seq) <= n - 1 THEN seq ELSE SubSeq(seq, Len(seq) - n + 2, Len(seq))

\* move_history[-n:]
LastN(seq, n) == IF Len(seq) <= n THEN seq ELSE SubSeq(seq, Len(seq) - n + 1, Len(seq))

\* phase_rules[phase]["min_exchanges"]
min_exchanges(p) ==
    CASE p = "opening" -> 1 [] p = "exploration" -> 2 [] p = "deepening" -> 2
      [] p = "insight" -> 1 [] p = "closing" -> 1

\* phase_rules[phase]["max_exchanges"] with one more exchange for Insight
max_exchanges_long_insight(p) ==
    CASE p = "opening" -> 3 [] p = "exploration" -> 5 [] p = "deepening" -> 4
      [] p = "insight" -> 4 [] p = "closing" -> 2

\* phase_rules[phase]["max_exchanges"]
max_exchanges(p) ==
    CASE p = "opening" -> 3 [] p = "exploration" -> 5 [] p = "deepening" -> 4
      [] p = "insight" -> 3 [] p = "closing" -> 2

\* phase_rules[phase]["conditions"]: (name, met) pairs in the order of the code
phase_conditions(s) ==
    CASE s.current_phase = "opening" ->
           << <<"threads_identified", Len(s.active_threads) >= 2>> >>
      [] s.current_phase = "exploration" ->
           << <<"pattern_detected", Len(s.observations) > 0>>,
              <<"thread_explored",
                \E i \in 1..Len(s.active_threads) :
                    s.active_threads[i].exploration_depth >= 2>> >>
      [] s.current_phase = "deepening" ->
           << <<"core_issue_identified", s.core_issue_identified>>,
              <<"observation_surfaced",
                \E i \in 1..Len(s.observations) : s.observations[i].surfaced>> >>
      [] s.current_phase = "insight" ->
           << <<"insight_given",
                IF Len(s.move_history) >= 1
                THEN \E i \in 1..Len(LastN(s.move_history, 3)) :
                        LastN(s.move_history, 3)[i] = "insight"
                ELSE FALSE>> >>
      [] s.current_phase = "closing" -> <<>>

\* f"Reached max exchanges for {phase}"
MaxReason(p) ==
    CASE p = "opening" -> "Reached max exchanges for opening"
      [] p = "exploration" -> "Reached max exchanges for exploration"
      [] p = "deepening" -> "Reached max exchanges for deepening"
      [] p = "insight" -> "Reached max exchanges for insight"
      [] p = "closing" -> "Reached max exchanges for closing"

\* should_transition_phase: (should_transition, reason)
should_transition_phase(s) ==
    LET conds == phase_conditions(s)
        met   == {i \in 1..Len(conds) : conds[i][2]}
    IN  IF s.phase_exchange_count >= max_exchanges(s.current_phase)
        THEN <<TRUE, MaxReason(s.current_phase)>>
        ELSE IF s.phase_exchange_count < min_exchanges(s.current_phase)
        THEN <<FALSE, None>>
        ELSE IF met # {}
        THEN <<TRUE, conds[CHOOSE i \in met : \A j \in met : i <= j][1]>>
        ELSE <<FALSE, None>>

\* get_next_phase taking the index modulo the number of phases
get_next_phase_wraps(s) ==
    LET current_idx == PhaseIndex(s.current_phase)
    IN  phase_order[(current_idx % Len(phase_order)) + 1]

\* get_next_phase
get_next_phase(s) ==
    LET current_idx == PhaseIndex(s.current_phase)
    IN  IF current_idx < Len(phase_order) THEN phase_order[current_idx + 1] ELSE None

\* advance_phase guarding only the phase assignment with `if next_phase`
advance_phase_unguarded(s, reason) ==
    LET next_phase == get_next_phase(s)
    IN  [s EXCEPT !.current_phase = IF next_phase # None THEN next_phase ELSE @,
                  !.phase_exchange_count = 0,
                  !.transition_reason = reason,
                  !.ready_for_options =
                      IF next_phase = "closing" THEN TRUE ELSE @]

\* advance_phase marking ready for options from Insight on
advance_phase_ready_from_insight(s, reason) ==
    LET next_phase == get_next_phase(s)
    IN  IF next_phase # None
        THEN [s EXCEPT !.current_phase = next_phase,
                       !.phase_exchange_count = 0,
                       !.transition_reason = reason,
                       !.ready_for_options =
                           IF next_phase \in {"insight", "closing"} THEN TRUE ELSE @]
        ELSE s

\* advance_phase without the reset of the in-phase counter
advance_phase_keeps_count(s, reason) ==
    LET next_phase == get_next_phase(s)
    IN  IF next_phase # None
        THEN [s EXCEPT !.current_phase = next_phase,
                       !.transition_reason = reason,
                       !.ready_for_options =
                           IF next_phase = "closing" THEN TRUE ELSE @]
        ELSE s

\* advance_phase
advance_phase(s, reason) ==
    LET next_phase == get_next_phase(s)
    IN  IF next_phase # None
        THEN [s EXCEPT !.current_phase = next_phase,
                       !.phase_exchange_count = 0,
                       !.transition_reason = reason,
                       !.ready_for_options =
                           IF next_phase = "closing" THEN TRUE ELSE @]
        ELSE s

---------------------------------------------------------------------------
(* pattern_detector.py                                                     *)

\* Optional[int] None of surfaced_at_exchange
NoExchange == 0 - 1

\* DetectedThread (relevance_score in hundredths)
DetectedThread(topic, type, intensity, relevance) ==
    [ topic |-> topic, type |-> type, emotional_intensity |-> intensity,
      relevance_score |-> relevance ]

\* DetectedObservation (confidence in hundredths)
DetectedObservation(type, text, confidence) ==
    [ type |-> type, text |-> text, confidence |-> confidence ]

\* The user messages a turn may carry.
UserMessages == {Msg_ok, Msg_trapped, Msg_should}

\* _rule_based_analysis: new_threads, new_observations and dominant_emotion
\* that the rules (_detect_emotion, _detect_emotional_threads,
\* _detect_contradictions, _detect_value_statements, _detect_repeated_themes)
\* yield for each message of UserMessages, with a non-empty history that
\* holds none of the repeated-theme words.
rule_based_analysis(message) ==
    CASE message = Msg_ok ->
           [ new_threads |-> <<>>, new_observations |-> <<>>,
             dominant_emotion |-> "neutral" ]
      [] message = Msg_trapped ->
           [ new_threads |->
               << DetectedThread(Topic_feeling_trapped, "emotional", "high", 70),
                  DetectedThread(Topic_values_peace, "value", "medium", 80) >>,
             new_observations |-> <<>>,
             dominant_emotion |-> "frustrated" ]
      [] message = Msg_should ->
           [ new_threads |->
               << DetectedThread(Topic_feeling_trapped, "emotional", "high", 70) >>,
             new_observations |->
               << DetectedObservation("contradiction", Obs_should_but, 70) >>,
             dominant_emotion |-> "frustrated" ]

\* What the enrichment call (_ai_analysis) may return when it succeeds.
AIAnalysisResults ==
    { [ new_threads |->
          << DetectedThread(Topic_Feeling_Trapped_ai, "emotional", "high", 90) >>,
        new_observations |->
          << DetectedObservation("pattern", Obs_avoids, 80) >>,
        dominant_emotion |-> "anxious" ] }

\* _update_thread_depths: the (thread id, new depth) entries, in thread order
thread_touched(message, thread) ==
    LET message_lower == Lower(message)
        topic_words   == SplitWords(Lower(thread.topic))
    IN  \E k \in 1..Len(topic_words) :
            Len(topic_words[k]) > 3 /\ Contains(message_lower, topic_words[k])

Min(a, b) == IF a <= b THEN a ELSE b

\* the depth updates without the cap of 3
RECURSIVE update_thread_depths_uncapped(_, _)
update_thread_depths_uncapped(message, active_threads) ==
    IF Len(active_threads) = 0 THEN <<>>
    ELSE LET thread == Head(active_threads)
         IN  (IF thread_touched(message, thread)
              THEN << <<thread.id, thread.exploration_depth + 1>> >>
              ELSE <<>>)
             \o update_thread_depths_uncapped(message, Tail(active_threads))

RECURSIVE update_thread_depths(_, _)
update_thread_depths(message, active_threads) ==
    IF Len(active_threads) = 0 THEN <<>>
    ELSE LET thread == Head(active_threads)
         IN  (IF thread_touched(message, thread)
              THEN << <<thread.id, Min(thread.exploration_depth + 1, 3)>> >>
              ELSE <<>>)
             \o update_thread_depths(message, Tail(active_threads))

\* _is_duplicate_thread
is_duplicate_thread(thread, existing) ==
    \E k \in 1..Len(existing) :
        LET t_words == Range(SplitWords(Lower(thread.topic)))
            e_words == Range(SplitWords(Lower(existing[k].topic)))
        IN  \/ Lower(thread.topic) = Lower(existing[k].topic)
            \/ 2 * Cardinality(t_words \cap e_words) > Cardinality(t_words)

\* _is_duplicate_observation
is_duplicate_observation(obs, existing) ==
    \E k \in 1..Len(existing) :
        obs.type = existing[k].type /\ Lower(obs.text) = Lower(existing[k].text)

\* analyze_message, lines 122-128: the AI threads merged one by one
RECURSIVE merge_threads(_, _)
merge_threads(found, ai_threads) ==
    IF Len(ai_threads) = 0 THEN found
    ELSE merge_threads(
             IF is_duplicate_thread(Head(ai_threads), found)
             THEN found ELSE Append(found, Head(ai_threads)),
             Tail(ai_threads))

RECURSIVE merge_observations(_, _)
merge_observations(found, ai_obs) ==
    IF Len(ai_obs) = 0 THEN found
    ELSE merge_observations(
             IF is_duplicate_observation(Head(ai_obs), found)
             THEN found ELSE Append(found, Head(ai_obs)),
             Tail(ai_obs))

\* analyze_message up to the enrichment call: the rule-based result and the
\* depth updates
analyze_rules(message, s) ==
    LET rule_result == rule_based_analysis(message)
    IN  [ new_threads           |-> rule_result.new_threads,
          new_observations      |-> rule_result.new_observations,
          updated_thread_depths |-> update_thread_depths(message, s.active_threads),
          dominant_emotion      |-> rule_result.dominant_emotion ]

\* analyze_message after a successful enrichment call
merge_ai_result(result, ai_result) ==
    [ result EXCEPT
        !.new_threads = merge_threads(@, ai_result.new_threads),
        !.new_observations = merge_observations(@, ai_result.new_observations) ]

\* create_thread_from_detected stamping the exchange after the current one
create_thread_from_detected_next_exchange(detected, exchange_num, fresh) ==
    [ id                      |-> <<"uuid", fresh>>,
      topic                   |-> detected.topic,
      type                    |-> detected.type,
      emotional_intensity     |-> detected.emotional_intensity,
      relevance_score         |-> detected.relevance_score,
      exploration_depth       |-> 0,
      first_mentioned_exchange |-> exchange_num + 1,
      last_touched_exchange   |-> exchange_num + 1 ]

\* create_thread_from_detected; the uuid is a fresh id
create_thread_from_detected(detected, exchange_num, fresh) ==
    [ id                      |-> <<"uuid", fresh>>,
      topic                   |-> detected.topic,
      type                    |-> detected.type,
      emotional_intensity     |-> detected.emotional_intensity,
      relevance_score         |-> detected.relevance_score,
      exploration_depth       |-> 0,
      first_mentioned_exchange |-> exchange_num,
      last_touched_exchange   |-> exchange_num ]

\* create_observation_from_detected; the uuid is a fresh id
create_observation_from_detected(detected, fresh) ==
    [ id                   |-> <<"uuid", fresh>>,
      type                 |-> detected.type,
      text                 |-> detected.text,
      confidence           |-> detected.confidence,
      surfaced             |-> FALSE,
      surfaced_at_exchange |-> NoExchange ]

---------------------------------------------------------------------------
(* psychologist_engine.py                                                  *)

\* MAX_REGEN_ATTEMPTS one too high
MAX_REGEN_ATTEMPTS_one_more == 2 + 1

\* PsychologistEngine.MAX_REGEN_ATTEMPTS
MAX_REGEN_ATTEMPTS == 2

\* _update_state_with_patterns, lines 175-182
RECURSIVE add_detected_threads(_, _, _)
add_detected_threads(active_threads, new_threads, total) ==
    IF Len(new_threads) = 0 THEN active_threads
    ELSE LET detected == Head(new_threads)
             existing_topics == {Lower(active_threads[i].topic) :
                                    i \in 1..Len(active_threads)}
         IN  add_detected_threads(
                 IF Lower(detected.topic) \notin existing_topics
                 THEN Append(active_threads,
                             create_thread_from_detected(
                                 detected, total, Len(active_threads) + 1))
                 ELSE active_threads,
                 Tail(new_threads), total)

\* _update_state_with_patterns, lines 185-189
apply_thread_depths(active_threads, updates, total) ==
    [ i \in 1..Len(active_threads) |->
        LET hits == {k \in 1..Len(updates) : updates[k][1] = active_threads[i].id}
        IN  IF hits = {} THEN active_threads[i]
            ELSE [ active_threads[i] EXCEPT
                     !.exploration_depth =
                         updates[CHOOSE k \in hits : \A m \in hits : k >= m][2],
                     !.last_touched_exchange = total ] ]

\* _update_state_with_patterns, lines 192-197
RECURSIVE add_detected_observations(_, _)
add_detected_observations(observations, new_observations) ==
    IF Len(new_observations) = 0 THEN observations
    ELSE LET detected == Head(new_observations)
             existing_texts == {Lower(observations[i].text) :
                                   i \in 1..Len(observations)}
         IN  add_detected_observations(
                 IF Lower(detected.text) \notin existing_texts
                 THEN Append(observations,
                             create_observation_from_detected(
                                 detected, Len(observations) + 1))
                 ELSE observations,
                 Tail(new_observations))

\* _update_state_with_patterns
update_state_with_patterns(s, pattern_result) ==
    LET threads1 == add_detected_threads(
                        s.active_threads, pattern_result.new_threads,
                        s.total_exchange_count)
        threads2 == apply_thread_depths(
                        threads1, pattern_result.updated_thread_depths,
                        s.total_exchange_count)
    IN  [ s EXCEPT
            !.active_threads = threads2,
            !.observations =
                add_detected_observations(@, pattern_result.new_observations),
            !.dominant_emotion =
                IF pattern_result.dominant_emotion # None
                THEN pattern_result.dominant_emotion ELSE @ ]

\* process_message, lines 132-136: Step 2, the phase evaluation
evaluate_phase(s) ==
    LET verdict == should_transition_phase(s)
    IN  IF verdict[1] THEN advance_phase(s, verdict[2]) ELSE s

\* str.upper(), one character
UpperChar(c) ==
    IF \E i \in 1..Len(LowerChars) : LowerChars[i] = c
    THEN UpperChars[CHOOSE i \in 1..Len(LowerChars) : LowerChars[i] = c]
    ELSE c

\* _parse_move with Reflection as the default
parse_move_defaults_to_reflection(move_str) ==
    LET replaced == [i \in 1..Len(move_str) |->
                        IF move_str[i] = "-" THEN "_" ELSE move_str[i]]
        value    == Lower(replaced)
    IN  CASE value = Label_reflection -> "reflection"
          [] value = Label_observation -> "observation"
          [] value = Label_challenge -> "challenge"
          [] value = Label_deepening_question -> "deepening_question"
          [] value = Label_synthesis -> "synthesis"
          [] value = Label_insight -> "insight"
          [] value = Label_transition -> "transition"
          [] OTHER -> "reflection"

\* _parse_move: upper(), replace("-", "_"), lower(), then the enum lookup
\* with the DeepeningQuestion default
parse_move(move_str) ==
    LET upper    == [i \in 1..Len(move_str) |-> UpperChar(move_str[i])]
        replaced == [i \in 1..Len(upper) |-> IF upper[i] = "-" THEN "_" ELSE upper[i]]
        value    == Lower(replaced)
    IN  CASE value = Label_reflection -> "reflection"
          [] value = Label_observation -> "observation"
          [] value = Label_challenge -> "challenge"
          [] value = Label_deepening_question -> "deepening_question"
          [] value = Label_synthesis -> "synthesis"
          [] value = Label_insight -> "insight"
          [] value = Label_transition -> "transition"
          [] OTHER -> "deepening_question"

\* the allowed-move table with Reflection also allowed in Closing
allowed_moves_reflective_closing(phase) ==
    CASE phase = "opening" -> {"reflection", "deepening_question"}
      [] phase = "exploration" -> {"reflection", "deepening_question", "observation"}
      [] phase = "deepening" -> {"reflection", "observation", "challenge",
                                 "synthesis", "deepening_question"}
      [] phase = "insight" -> {"synthesis", "insight", "reflection"}
      [] phase = "closing" -> {"synthesis", "transition", "insight", "reflection"}

\* _is_move_allowed_in_phase
allowed_moves(phase) ==
    CASE phase = "opening" -> {"reflection", "deepening_question"}
      [] phase = "exploration" -> {"reflection", "deepening_question", "observation"}
      [] phase = "deepening" -> {"reflection", "observation", "challenge",
                                 "synthesis", "deepening_question"}
      [] phase = "insight" -> {"synthesis", "insight", "reflection"}
      [] phase = "closing" -> {"synthesis", "transition", "insight"}

is_move_allowed_in_phase(move, phase) == move \in allowed_moves(phase)

\* BANNED_QUESTION_PATTERNS, psychologist_state.py, by position
BannedPatternNames ==
    << "what (kind|type|category) of", "would you prefer (A|B|C)",
       "which of these", "what new \\w+ would you", "^Understood\\.", "^Got it\\." >>

\* re.search(r"what new \w+ would you", text)
matches_what_new(text) ==
    \E i \in 1..Len(text) :
        /\ i + Len(P_what_new) - 1 <= Len(text)
        /\ SubSeq(text, i, i + Len(P_what_new) - 1) = P_what_new
        /\ \E n \in 1..Len(text) :
              LET from == i + Len(P_what_new)
                  to   == from + n - 1
              IN  /\ to + Len(P_would_you) <= Len(text)
                  /\ \A k \in from..to : IsWordChar(text[k])
                  /\ SubSeq(text, to + 1, to + Len(P_would_you)) = P_would_you

\* re.search(BANNED_QUESTION_PATTERNS[k], text, re.IGNORECASE) on the
\* lower-cased text
banned_pattern_found(k, text) ==
    CASE k = 1 -> Contains(text, P_kind) \/ Contains(text, P_type)
                  \/ Contains(text, P_category)
      [] k = 2 -> Contains(text, P_prefer_a) \/ Contains(text, P_prefer_b)
                  \/ Contains(text, P_prefer_c)
      [] k = 3 -> Contains(text, P_which_of_these)
      [] k = 4 -> matches_what_new(text)
      [] k = 5 -> StartsWith(text, P_understood_dot)
      [] k = 6 -> StartsWith(text, P_got_it_dot)

\* one entry of the issue list
Issue(kind, pattern, count, move, phase) ==
    [ kind |-> kind, pattern |-> pattern, count |-> count,
      move |-> move, phase |-> phase ]

\* synthesis_indicators
synthesis_indicators ==
    << Ind_so_far, Ind_understanding_that, Ind_im_hearing, Ind_let_me_check,
       Ind_what_im_getting, Ind_to_summarize >>

RECURSIVE banned_issues(_, _)
banned_issues(k, text) ==
    IF k > Len(BannedPatternNames) THEN <<>>
    ELSE (IF banned_pattern_found(k, text)
          THEN <<Issue("banned_pattern", BannedPatternNames[k], 0, "", "")>>
          ELSE <<>>)
         \o banned_issues(k + 1, text)

\* _validate_response: the issue list, in the order the code appends
validate_response(reply, s) ==
    LET text == Lower(reply.response)
        question_count == CountChar(text, "?")
        has_synthesis ==
            \E k \in 1..Len(synthesis_indicators) :
                Contains(text, synthesis_indicators[k])
        move == parse_move(reply.response_move)
        recent_moves ==
            IF Len(s.move_history) >= 2 THEN LastN(s.move_history, 2) ELSE <<>>
    IN  (IF StartsWith(text, S_understood)
         THEN <<Issue("understood_opener", "", 0, "", "")>> ELSE <<>>)
        \o (IF StartsWith(text, S_got_it)
            THEN <<Issue("got_it_opener", "", 0, "", "")>> ELSE <<>>)
        \o banned_issues(1, text)
        \o (IF question_count > 1
            THEN <<Issue("questions", "", question_count, "", "")>> ELSE <<>>)
        \o (IF needs_synthesis(s) /\ ~has_synthesis
            THEN <<Issue("missing_synthesis", "",
                         s.total_exchange_count - s.last_synthesis_exchange,
                         "", "")>>
            ELSE <<>>)
        \o (IF ~is_move_allowed_in_phase(move, s.current_phase)
            THEN <<Issue("move_not_appropriate", "", 0, move, s.current_phase)>>
            ELSE <<>>)
        \o (IF /\ move = "deepening_question"
               /\ Len(recent_moves) >= 2
               /\ \A k \in 1..Len(recent_moves) :
                     recent_moves[k] = "deepening_question"
            THEN <<Issue("consecutive_questions", "", 0, "", "")>> ELSE <<>>)

\* _validate_response: the fixed parts of the issue messages
IssueMessages ==
    [
      \* 'Starts with 'Understood' (robotic)'
      understood |-> <<"S","t","a","r","t","s"," ","w","i","t","h"," ","'",
          "U","n","d","e","r","s","t","o","o","d","'"," ","(","r","o","b",
          "o","t","i","c",")">>,
      \* 'Starts with 'Got it' (robotic)'
      got_it |-> <<"S","t","a","r","t","s"," ","w","i","t","h"," ","'","G",
          "o","t"," ","i","t","'"," ","(","r","o","b","o","t","i","c",")">>,
      \* 'Contains banned pattern: '
      banned_prefix |-> <<"C","o","n","t","a","i","n","s"," ","b","a","n",
          "n","e","d"," ","p","a","t","t","e","r","n",":"," ">>,
      \* 'Contains '
      contains |-> <<"C","o","n","t","a","i","n","s"," ">>,
      \* ' questions (max 1)'
      questions_suffix |-> <<" ","q","u","e","s","t","i","o","n","s"," ",
          "(","m","a","x"," ","1",")">>,
      \* 'Missing synthesis (required every 3 exchanges, last was '
      missing_prefix |-> <<"M","i","s","s","i","n","g"," ","s","y","n","t",
          "h","e","s","i","s"," ","(","r","e","q","u","i","r","e","d"," ",
          "e","v","e","r","y"," ","3"," ","e","x","c","h","a","n","g","e",
          "s",","," ","l","a","s","t"," ","w","a","s"," ">>,
      \* ' ago)'
      ago |-> <<" ","a","g","o",")">>,
      \* 'Move '
      move |-> <<"M","o","v","e"," ">>,
      \* ' not appropriate for phase '
      not_appropriate |-> <<" ","n","o","t"," ","a","p","p","r","o","p","r",
          "i","a","t","e"," ","f","o","r"," ","p","h","a","s","e"," ">>,
      \* 'Asked 2+ questions in a row without reflection/synthesis'
      consecutive |-> <<"A","s","k","e","d"," ","2","+"," ","q","u","e","s",
          "t","i","o","n","s"," ","i","n"," ","a"," ","r","o","w"," ","w",
          "i","t","h","o","u","t"," ","r","e","f","l","e","c","t","i","o",
          "n","/","s","y","n","t","h","e","s","i","s">> ]

\* BANNED_QUESTION_PATTERNS: the pattern sources, in the order of
\* BannedPatternNames
BannedPatternSources ==
    <<
      \* 'what (kind|type|category) of'
      <<"w","h","a","t"," ","(","k","i","n","d","|","t","y","p","e","|","c",
          "a","t","e","g","o","r","y",")"," ","o","f">>,
      \* 'would you prefer (A|B|C)'
      <<"w","o","u","l","d"," ","y","o","u"," ","p","r","e","f","e","r"," ",
          "(","A","|","B","|","C",")">>,
      \* 'which of these'
      <<"w","h","i","c","h"," ","o","f"," ","t","h","e","s","e">>,
      \* 'what new \w+ would you'
      <<"w","h","a","t"," ","n","e","w"," ","\\","w","+"," ","w","o","u",
          "l","d"," ","y","o","u">>,
      \* '^Understood\.'
      <<"^","U","n","d","e","r","s","t","o","o","d","\\",".">>,
      \* '^Got it\.'
      <<"^","G","o","t"," ","i","t","\\",".">> >>

\* ConversationPhase: the values, in phase_order
PhaseValues ==
    <<
      \* 'opening'
      <<"o","p","e","n","i","n","g">>,
      \* 'exploration'
      <<"e","x","p","l","o","r","a","t","i","o","n">>,
      \* 'deepening'
      <<"d","e","e","p","e","n","i","n","g">>,
      \* 'insight'
      <<"i","n","s","i","g","h","t">>,
      \* 'closing'
      <<"c","l","o","s","i","n","g">> >>

\* _build_correction_prompt: the words looked for in an issue message
CorrectionKeywords ==
    [
      \* 'Understood'
      Understood |-> <<"U","n","d","e","r","s","t","o","o","d">>,
      \* 'Got it'
      Got_it |-> <<"G","o","t"," ","i","t">>,
      \* 'banned pattern'
      banned_pattern |-> <<"b","a","n","n","e","d"," ","p","a","t","t","e",
          "r","n">>,
      \* 'questions'
      questions |-> <<"q","u","e","s","t","i","o","n","s">>,
      \* 'synthesis'
      synthesis |-> <<"s","y","n","t","h","e","s","i","s">>,
      \* 'Move'
      Move |-> <<"M","o","v","e">> ]

DigitChars == <<"0","1","2","3","4","5","6","7","8","9">>

\* str(n) for n >= 0
RECURSIVE Digits(_)
Digits(n) ==
    IF n < 10 THEN << DigitChars[n + 1] >>
    ELSE Digits(n \div 10) \o << DigitChars[(n % 10) + 1] >>

\* the source text of a banned pattern
PatternText(name) ==
    BannedPatternSources[
        CHOOSE k \in 1..Len(BannedPatternNames) : BannedPatternNames[k] = name]

\* move.value
MoveText(move) ==
    CASE move = "reflection" -> Label_reflection
      [] move = "observation" -> Label_observation
      [] move = "challenge" -> Label_challenge
      [] move = "deepening_question" -> Label_deepening_question
      [] move = "synthesis" -> Label_synthesis
      [] move = "insight" -> Label_insight
      [] move = "transition" -> Label_transition

\* phase.value
PhaseText(phase) == PhaseValues[PhaseIndex(phase)]

\* _validate_response: the message appended for an issue
issue_text(issue) ==
    CASE issue.kind = "understood_opener" -> IssueMessages.understood
      [] issue.kind = "got_it_opener" -> IssueMessages.got_it
      [] issue.kind = "banned_pattern" ->
             IssueMessages.banned_prefix \o PatternText(issue.pattern)
      [] issue.kind = "questions" ->
             IssueMessages.contains \o Digits(issue.count) \o IssueMessages.questions_suffix
      [] issue.kind = "missing_synthesis" ->
             IssueMessages.missing_prefix \o Digits(issue.count) \o IssueMessages.ago
      [] issue.kind = "move_not_appropriate" ->
             IssueMessages.move \o MoveText(issue.move) \o IssueMessages.not_appropriate
                 \o PhaseText(issue.phase)
      [] issue.kind = "consecutive_questions" -> IssueMessages.consecutive

\* _build_correction_prompt: the corrections list, one "- " line of the
\* block each
RECURSIVE build_correction_prompt(_)
build_correction_prompt(issue_list) ==
    IF Len(issue_list) = 0 THEN <<>>
    ELSE LET issue == issue_text(Head(issue_list))
         IN  (IF Contains(issue, CorrectionKeywords.Understood) \/ Contains(issue, CorrectionKeywords.Got_it)
              THEN << "DO NOT start with 'Understood' or 'Got it'" >>
              ELSE IF Contains(issue, CorrectionKeywords.banned_pattern)
              THEN << "DO NOT ask 'What type/kind of X?'" >>
              ELSE IF Contains(issue, CorrectionKeywords.questions)
              THEN << "Ask only ONE question per response." >>
              ELSE IF Contains(issue, CorrectionKeywords.synthesis)
              THEN << "You MUST include a synthesis statement." >>
              ELSE IF Contains(issue, CorrectionKeywords.Move)
              THEN << "Use a different response move" >>
              ELSE <<>>)
             \o build_correction_prompt(Tail(issue_list))

\* _apply_fixes, lines 343-348
fix_understood(text) ==
    IF StartsWith(Lower(text), S_understood)
    THEN LET t1 == Strip(DropFirst(text, 10))
             t2 == IF StartsWith(t1, <<".">>) THEN Strip(DropFirst(t1, 1)) ELSE t1
         IN  IF StartsWith(t2, <<",">>) THEN Strip(DropFirst(t2, 1)) ELSE t2
    ELSE text

\* _apply_fixes, lines 350-353
fix_got_it(text) ==
    IF StartsWith(Lower(text), S_got_it)
    THEN LET t1 == Strip(DropFirst(text, 6))
         IN  IF StartsWith(t1, <<".">>) THEN Strip(DropFirst(t1, 1)) ELSE t1
    ELSE text

\* _apply_fixes, lines 355-361
fix_questions(text) ==
    IF CountChar(text, "?") > 1
    THEN LET sentences == SplitSentences(text)
             IsQuestion(x) == CountChar(x, "?") > 0
             IsStatement(x) == ~IsQuestion(x)
             questions == SelectSeq(sentences, IsQuestion)
             non_questions == SelectSeq(sentences, IsStatement)
         IN  IF Len(questions) > 0 /\ Len(non_questions) > 0
             THEN Join(non_questions, <<" ">>) \o <<" ">>
                  \o questions[Len(questions)]
             ELSE text
    ELSE text

\* _apply_fixes putting a synthesis sentence and a synthesis point in
\* front of the reply
apply_fixes_prepends_synthesis(reply) ==
    [ reply EXCEPT
        !.response = Txt_so_far \o <<" ">>
                         \o fix_questions(fix_got_it(fix_understood(@))),
        !.synthesis_points = <<"point">> \o @ ]

\* _apply_fixes
apply_fixes(reply) ==
    [ reply EXCEPT !.response = fix_questions(fix_got_it(fix_understood(@))) ]

\* _update_state_from_response, lines 434-437
RECURSIVE add_synthesis_points(_, _)
add_synthesis_points(points, new_points) ==
    IF Len(new_points) = 0 THEN points
    ELSE add_synthesis_points(
             IF Head(new_points) \notin Range(points)
             THEN Append(points, Head(new_points)) ELSE points,
             Tail(new_points))

\* _update_state_from_response, lines 445-459; the id is f"t{len + 1}"
RECURSIVE add_response_threads(_, _, _)
add_response_threads(active_threads, threads_detected, total) ==
    IF Len(threads_detected) = 0 THEN active_threads
    ELSE LET thread_data == Head(threads_detected)
             existing_topics == {Lower(active_threads[i].topic) :
                                    i \in 1..Len(active_threads)}
         IN  add_response_threads(
                 IF Lower(thread_data.topic) \notin existing_topics
                 THEN Append(active_threads,
                        [ id                       |-> <<"t", Len(active_threads) + 1>>,
                          topic                    |-> thread_data.topic,
                          type                     |-> thread_data.type,
                          emotional_intensity      |-> thread_data.emotional_intensity,
                          relevance_score          |-> thread_data.relevance_score,
                          exploration_depth        |-> 0,
                          first_mentioned_exchange |-> total,
                          last_touched_exchange    |-> total ])
                 ELSE active_threads,
                 Tail(threads_detected), total)

\* the reply's observations compared with the tracked texts as written,
\* without lower-casing
RECURSIVE add_response_observations_exact(_, _)
add_response_observations_exact(observations, observations_detected) ==
    IF Len(observations_detected) = 0 THEN observations
    ELSE LET obs_data == Head(observations_detected)
             existing_texts == {observations[i].text : i \in 1..Len(observations)}
         IN  add_response_observations_exact(
                 IF obs_data.text \notin existing_texts
                 THEN Append(observations,
                        [ id                   |-> <<"o", Len(observations) + 1>>,
                          type                 |-> obs_data.type,
                          text                 |-> obs_data.text,
                          confidence           |-> obs_data.confidence,
                          surfaced             |-> FALSE,
                          surfaced_at_exchange |-> NoExchange ])
                 ELSE observations,
                 Tail(observations_detected))

\* _update_state_from_response, lines 462-473; the id is f"o{len + 1}"
RECURSIVE add_response_observations(_, _)
add_response_observations(observations, observations_detected) ==
    IF Len(observations_detected) = 0 THEN observations
    ELSE LET obs_data == Head(observations_detected)
             existing_texts == {Lower(observations[i].text) :
                                   i \in 1..Len(observations)}
         IN  add_response_observations(
                 IF Lower(obs_data.text) \notin existing_texts
                 THEN Append(observations,
                        [ id                   |-> <<"o", Len(observations) + 1>>,
                          type                 |-> obs_data.type,
                          text                 |-> obs_data.text,
                          confidence           |-> obs_data.confidence,
                          surfaced             |-> FALSE,
                          surfaced_at_exchange |-> NoExchange ])
                 ELSE observations,
                 Tail(observations_detected))

\* marking every unsurfaced observation, not the first
surface_every_observation(s) ==
    LET unsurfaced == get_unsurfaced_observations(s)
    IN  [ s EXCEPT !.observations =
            [ i \in 1..Len(s.observations) |->
                IF i \in unsurfaced
                THEN [ s.observations[i] EXCEPT
                         !.surfaced = TRUE,
                         !.surfaced_at_exchange = s.total_exchange_count ]
                ELSE s.observations[i] ] ]

\* _update_state_from_response, lines 476-480
surface_first_observation(s) ==
    LET unsurfaced == get_unsurfaced_observations(s)
    IN  IF unsurfaced # {}
        THEN LET first == CHOOSE i \in unsurfaced : \A j \in unsurfaced : i <= j
             IN  [ s EXCEPT
                     !.observations[first].surfaced = TRUE,
                     !.observations[first].surfaced_at_exchange =
                         s.total_exchange_count ]
        ELSE s

\* _update_state_from_response, lines 483-484
transition_from_response(s, reply) ==
    IF reply.should_transition
    THEN advance_phase(s, IF reply.transition_reason # None
                          THEN reply.transition_reason
                          ELSE "AI indicated transition")
    ELSE s

\* _update_state_from_response
update_state_from_response(s, reply) ==
    LET move == parse_move(reply.response_move)
        s1 == [ s EXCEPT
                  !.last_move = move,
                  !.move_history = Append(@, move),
                  !.last_synthesis_exchange =
                      IF move = "synthesis" THEN s.total_exchange_count ELSE @,
                  !.synthesis_points =
                      add_synthesis_points(@, reply.synthesis_points),
                  !.core_issue_identified =
                      IF reply.core_issue # None THEN TRUE ELSE @,
                  !.core_issue_statement =
                      IF reply.core_issue # None THEN reply.core_issue ELSE @,
                  !.active_threads =
                      add_response_threads(@, reply.threads_detected,
                                           s.total_exchange_count),
                  !.observations =
                      add_response_observations(@, reply.observations_detected) ]
        s2 == IF move = "observation" THEN surface_first_observation(s1) ELSE s1
    IN  transition_from_response(s2, reply)

\* AIResponseModel
AIResponse(text, move, threads, observations, points, core_issue) ==
    [ response              |-> text,
      response_move         |-> move,
      threads_detected      |-> threads,
      observations_detected |-> observations,
      synthesis_points      |-> points,
      core_issue            |-> core_issue,
      should_transition     |-> FALSE,
      transition_reason     |-> None ]

\* The replies the generation collaborator may give, before should_transition.
BaseReplies ==
    { AIResponse(Txt_i_see, Label_reflection, <<>>, <<>>, <<>>, None),
      AIResponse(Txt_why, Label_deepening_question, <<>>, <<>>, <<>>, None),
      AIResponse(Txt_why_how, Label_Deepening_Question_dash, <<>>, <<>>, <<>>, None),
      AIResponse(Txt_ok_why_how, Label_reflection, <<>>, <<>>, <<>>, None),
      AIResponse(Txt_understood_why, Label_probe, <<>>, <<>>, <<>>, None),
      AIResponse(Txt_got_it_why_how, Label_reflection, <<>>, <<>>, <<>>, None),
      AIResponse(Txt_what_kind, Label_deepening_question, <<>>, <<>>, <<>>, None),
      AIResponse(Txt_so_far, Label_synthesis, <<>>, <<>>, <<"point">>, None),
      AIResponse(Txt_so_far, Label_insight, <<>>, <<>>, <<>>, "core"),
      AIResponse(Txt_i_see, Label_observation,
                 << [ topic |-> Topic_Feeling_Trapped_ai, type |-> "emotional",
                      emotional_intensity |-> "high", relevance_score |-> 50 ] >>,
                 << [ type |-> "pattern", text |-> Obs_Avoids_ai,
                      confidence |-> 70 ] >>,
                 <<>>, None),
      AIResponse(Txt_i_see, Label_challenge, <<>>, <<>>, <<>>, None),
      AIResponse(Txt_so_far, Label_transition, <<>>, <<>>, <<>>, None) }

\* The replies, with the should_transition / transition_reason they declare.
Replies ==
    BaseReplies
    \cup { [ r EXCEPT !.should_transition = TRUE ] : r \in BaseReplies }
    \cup { [ r EXCEPT !.should_transition = TRUE, !.transition_reason = "ready" ] :
             r \in { b \in BaseReplies : b.response = Txt_i_see } }

\* PsychologistResponse, lines 152-161
PsychologistResponse(reply, s) ==
    [ response          |-> reply.response,
      response_move     |-> parse_move(reply.response_move),
      synthesis_points  |-> s.synthesis_points,
      core_issue        |-> s.core_issue_statement,
      ready_for_options |-> s.ready_for_options ]

---------------------------------------------------------------------------
(* One user turn: ChatService.send_message / _handle_clarify_message       *)
(* around PsychologistEngine.process_message, cut at the awaits.           *)

\* start_decision, chat_service.py lines 66-79: the messages a node starts with
InitialMessages == 2

\* len(chat_history) is at least this when process_message runs: send_message
\* has appended the user's message to the node's messages, which only grow
min_history_len == InitialMessages + 1

Init ==
    /\ stored = create_initial_state
    /\ state = create_initial_state
    /\ pc = "idle"
    /\ analysis = <<>>
    /\ attempt = 0
    /\ issues = <<>>
    /\ gen_calls = 0
    /\ enrich_calls = 0
    /\ response = <<>>

\* process_message, lines 138-146: the first call of the regeneration loop
\* is issued
StartGeneration(s) ==
    /\ state' = s
    /\ pc' = "generate"
    /\ attempt' = 0
    /\ gen_calls' = 1
    /\ analysis' = <<>>

\* _handle_clarify_message loads the state from the node; process_message
\* lines 118-127 count the exchange and run analyze_message up to its
\* enrichment call (made when the history has two entries or more). While
\* the call is out, analysis holds the result so far and user_message.
BeginTurn(message, max_turns) ==
    /\ pc = "idle"
    /\ stored.total_exchange_count < max_turns
    /\ response' = <<>>
    /\ issues' = <<>>
    /\ LET s1 == [ stored EXCEPT !.total_exchange_count = @ + 1,
                                 !.phase_exchange_count = @ + 1 ]
           result == analyze_rules(message, s1)
       IN  IF min_history_len >= 2
           THEN /\ state' = s1
                /\ analysis' = <<result, message>>
                /\ pc' = "enrich"
                /\ enrich_calls' = 1
                /\ attempt' = 0
                /\ gen_calls' = 0
           ELSE /\ StartGeneration(evaluate_phase(update_state_with_patterns(s1, result)))
                /\ enrich_calls' = 0
    /\ UNCHANGED stored

\* the enrichment call returns: merge, update the state, evaluate the phase
EnrichmentReturns(ai_result) ==
    /\ pc = "enrich"
    /\ StartGeneration(evaluate_phase(update_state_with_patterns(
           state, merge_ai_result(analysis[1], ai_result))))
    /\ UNCHANGED <<stored, issues, enrich_calls, response>>

\* analyze_message calling the enrichment again when it raises
EnrichmentFails_retries ==
    /\ pc = "enrich"
    /\ enrich_calls' = enrich_calls + 1
    /\ UNCHANGED <<stored, state, pc, analysis, attempt, issues, gen_calls, response>>

\* analyze_message keeping what an enrichment result held when the call
\* raises
EnrichmentFails_merges ==
    /\ pc = "enrich"
    /\ StartGeneration(evaluate_phase(update_state_with_patterns(
           state,
           merge_ai_result(analysis[1],
                           CHOOSE ai_result \in AIAnalysisResults : TRUE))))
    /\ UNCHANGED <<stored, issues, enrich_calls, response>>

\* the enrichment call raises: analyze_message swallows it
EnrichmentFails ==
    /\ pc = "enrich"
    /\ StartGeneration(evaluate_phase(update_state_with_patterns(state, analysis[1])))
    /\ UNCHANGED <<stored, issues, enrich_calls, response>>

\* process_message returning the reply while the node is given the state as
\* it was before _update_state_from_response
Commit_saves_earlier_state(reply) ==
    /\ response' = <<reply>>
    /\ state' = update_state_from_response(state, reply)
    /\ stored' = state
    /\ pc' = "idle"
    /\ UNCHANGED <<analysis, attempt, gen_calls, enrich_calls>>

\* process_message lines 148-161, then _handle_clarify_message saves the
\* state to the node
Commit(reply) ==
    /\ response' = <<reply>>
    /\ state' = update_state_from_response(state, reply)
    /\ stored' = state'
    /\ pc' = "idle"
    /\ UNCHANGED <<analysis, attempt, gen_calls, enrich_calls>>

\* a generation call returns a reply that validates clean
GenerationAccepted(reply) ==
    /\ pc = "generate"
    /\ issues' = validate_response(reply, state)
    /\ issues' = <<>>
    /\ Commit(reply)

\* a generation call returns a reply with issues and attempts remain: the
\* next call is issued
GenerationRejected(reply) ==
    /\ pc = "generate"
    /\ issues' = validate_response(reply, state)
    /\ issues' # <<>>
    /\ attempt < MAX_REGEN_ATTEMPTS
    /\ attempt' = attempt + 1
    /\ gen_calls' = gen_calls + 1
    /\ UNCHANGED <<stored, state, pc, analysis, enrich_calls, response>>

\* the last attempt's reply has issues: it is fixed and accepted
GenerationExhausted(reply) ==
    /\ pc = "generate"
    /\ issues' = validate_response(reply, state)
    /\ issues' # <<>>
    /\ attempt >= MAX_REGEN_ATTEMPTS
    /\ Commit(apply_fixes(reply))

\* a generation call raises: process_message propagates it
GenerationFails ==
    /\ pc = "generate"
    /\ pc' = "failed"
    /\ UNCHANGED <<stored, state, analysis, attempt, issues, gen_calls,
                   enrich_calls, response>>

\* _handle_clarify_message's except branch answers without the engine; the
\* node keeps the state it had and the state object is dropped
Fallback ==
    /\ pc = "failed"
    /\ pc' = "idle"
    /\ state' = stored
    /\ UNCHANGED <<stored, analysis, attempt, issues, gen_calls, enrich_calls,
                   response>>

\* The replies Spec draws from: few texts, the moves and declarations that
\* drive the phases.
FlowReplies ==
    { [ AIResponse(Txt_i_see, Label_reflection, <<>>, <<>>, <<>>, None)
          EXCEPT !.should_transition = TRUE ],
      AIResponse(Txt_so_far, Label_insight, <<>>, <<>>, <<>>, "core"),
      AIResponse(Txt_i_see, Label_observation,
                 << [ topic |-> Topic_Feeling_Trapped_ai, type |-> "emotional",
                      emotional_intensity |-> "high", relevance_score |-> 50 ] >>,
                 << [ type |-> "pattern", text |-> Obs_Avoids_ai,
                      confidence |-> 70 ] >>,
                 <<>>, None) }

\* The user messages Spec draws from.
FlowMessages == {Msg_ok, Msg_trapped}

\* conversations of up to MaxTurns turns
Next ==
    \/ \E message \in FlowMessages : BeginTurn(message, MaxTurns)
    \/ \E ai_result \in AIAnalysisResults : EnrichmentReturns(ai_result)
    \/ EnrichmentFails
    \/ \E reply \in FlowReplies : GenerationAccepted(reply)
    \/ \E reply \in FlowReplies : GenerationRejected(reply)
    \/ \E reply \in FlowReplies : GenerationExhausted(reply)
    \/ GenerationFails
    \/ Fallback

Spec == Init /\ [][Next]_vars

\* the first LoopTurns turns, with every reply of Replies
NextLoop ==
    \/ \E message \in UserMessages : BeginTurn(message, LoopTurns)
    \/ \E ai_result \in AIAnalysisResults : EnrichmentReturns(ai_result)
    \/ EnrichmentFails
    \/ \E reply \in Replies : GenerationAccepted(reply)
    \/ \E reply \in Replies : GenerationRejected(reply)
    \/ \E reply \in Replies : GenerationExhausted(reply)
    \/ GenerationFails
    \/ Fallback

SpecLoop == Init /\ [][NextLoop]_vars

\* The candidate turns _validate_response is asked about: the replies, and
\* texts without a question mark under the moves that need one.
Candidates ==
    BaseReplies
    \cup { AIResponse(Txt_say_what_kind, Label_reflection, <<>>, <<>>, <<>>, None),
           AIResponse(Txt_i_see, Label_deepening_question, <<>>, <<>>, <<>>, None),
           AIResponse(Txt_i_see, Label_synthesis, <<>>, <<>>, <<>>, None),
           AIResponse(Txt_so_far, Label_deepening_question, <<>>, <<>>, <<>>, None) }

\* The replies SpecMoves draws from: the moves that fill move_history and
\* set last_synthesis_exchange.
MoveReplies ==
    { AIResponse(Txt_why, Label_deepening_question, <<>>, <<>>, <<>>, None),
      AIResponse(Txt_i_see, Label_reflection, <<>>, <<>>, <<>>, None),
      [ AIResponse(Txt_so_far, Label_synthesis, <<>>, <<>>, <<>>, None)
          EXCEPT !.should_transition = TRUE ] }

\* The user messages SpecMoves draws from.
MoveMessages == {Msg_ok}

\* conversations of up to MoveTurns turns that vary the moves
NextMoves ==
    \/ \E message \in MoveMessages : BeginTurn(message, MoveTurns)
    \/ \E ai_result \in AIAnalysisResults : EnrichmentReturns(ai_result)
    \/ EnrichmentFails
    \/ \E reply \in MoveReplies : GenerationAccepted(reply)
    \/ \E reply \in MoveReplies : GenerationRejected(reply)
    \/ \E reply \in MoveReplies : GenerationExhausted(reply)
    \/ GenerationFails
    \/ Fallback

SpecMoves == Init /\ [][NextMoves]_vars

\* What the enrichment call may return in SpecThreads: threads whose topics
\* share words with the topic the rules find in Msg_trapped.
ThreadAIResults ==
    { [ new_threads |->
          << DetectedThread(Topic_feeling_trapped_again, "emotional", "high", 90) >>,
        new_observations |-> <<>>,
        dominant_emotion |-> None ],
      [ new_threads |->
          << DetectedThread(Topic_feeling_stuck, "emotional", "high", 90) >>,
        new_observations |-> <<>>,
        dominant_emotion |-> None ] }

\* The replies SpecThreads draws from.
ThreadReplies ==
    { AIResponse(Txt_i_see, Label_reflection, <<>>, <<>>, <<>>, None),
      AIResponse(Txt_why_how, Label_deepening_question, <<>>, <<>>, <<>>, None) }

\* The user messages SpecThreads draws from.
ThreadMessages == {Msg_ok, Msg_trapped}

\* conversations of up to ThreadTurns turns whose enrichment returns threads
NextThreads ==
    \/ \E message \in ThreadMessages : BeginTurn(message, ThreadTurns)
    \/ \E ai_result \in ThreadAIResults : EnrichmentReturns(ai_result)
    \/ EnrichmentFails
    \/ \E reply \in ThreadReplies : GenerationAccepted(reply)
    \/ \E reply \in ThreadReplies : GenerationRejected(reply)
    \/ \E reply \in ThreadReplies : GenerationExhausted(reply)
    \/ GenerationFails
    \/ Fallback

SpecThreads == Init /\ [][NextThreads]_vars

\* What the enrichment call may return in SpecObs: one observation, with a
\* confidence above or below the 0.6 of get_unsurfaced_observations.
ObsAIResults ==
    { [ new_threads |-> <<>>,
        new_observations |-> << DetectedObservation("pattern", Obs_avoids, 80) >>,
        dominant_emotion |-> None ],
      [ new_threads |-> <<>>,
        new_observations |-> << DetectedObservation("pattern", Obs_avoids, 50) >>,
        dominant_emotion |-> None ] }

\* The replies SpecObs draws from: an Observation move and another move.
ObsReplies ==
    { AIResponse(Txt_i_see, Label_observation, <<>>, <<>>, <<>>, None),
      AIResponse(Txt_i_see, Label_reflection, <<>>, <<>>, <<>>, None) }

\* The user messages SpecObs draws from.
ObsMessages == {Msg_ok, Msg_should}

\* conversations of up to ObsTurns turns that gather and surface observations
NextObs ==
    \/ \E message \in ObsMessages : BeginTurn(message, ObsTurns)
    \/ \E ai_result \in ObsAIResults : EnrichmentReturns(ai_result)
    \/ EnrichmentFails
    \/ \E reply \in ObsReplies : GenerationAccepted(reply)
    \/ \E reply \in ObsReplies : GenerationRejected(reply)
    \/ \E reply \in ObsReplies : GenerationExhausted(reply)
    \/ GenerationFails
    \/ Fallback

SpecObs == Init /\ [][NextObs]_vars

\* The replies SpecDepth draws from.
DepthReplies ==
    { AIResponse(Txt_i_see, Label_reflection, <<>>, <<>>, <<>>, None) }

\* The user messages SpecDepth draws from.
DepthMessages == {Msg_ok, Msg_trapped, Msg_should}

\* conversations of up to DepthTurns turns that come back to their threads
NextDepth ==
    \/ \E message \in DepthMessages : BeginTurn(message, DepthTurns)
    \/ \E ai_result \in AIAnalysisResults : EnrichmentReturns(ai_result)
    \/ EnrichmentFails
    \/ \E reply \in DepthReplies : GenerationAccepted(reply)
    \/ \E reply \in DepthReplies : GenerationRejected(reply)
    \/ \E reply \in DepthReplies : GenerationExhausted(reply)
    \/ GenerationFails
    \/ Fallback

SpecDepth == Init /\ [][NextDepth]_vars

\* conversations of up to RulesTurns turns whose enrichment call raises on
\* every turn
NextRules ==
    \/ \E message \in UserMessages : BeginTurn(message, RulesTurns)
    \/ EnrichmentFails
    \/ \E reply \in DepthReplies : GenerationAccepted(reply)
    \/ \E reply \in DepthReplies : GenerationRejected(reply)
    \/ \E reply \in DepthReplies : GenerationExhausted(reply)
    \/ GenerationFails
    \/ Fallback

SpecRules == Init /\ [][NextRules]_vars

\* The replies SpecLabel draws from: a question under its label, the same
\* question under a label that is no move, and a reflection.
LabelReplies ==
    { AIResponse(Txt_why, Label_deepening_question, <<>>, <<>>, <<>>, None),
      AIResponse(Txt_why, Label_probe, <<>>, <<>>, <<>>, None),
      AIResponse(Txt_i_see, Label_reflection, <<>>, <<>>, <<>>, None) }

\* conversations of up to LabelTurns turns whose replies may carry a label
\* that is no move
NextLabel ==
    \/ \E message \in MoveMessages : BeginTurn(message, LabelTurns)
    \/ \E ai_result \in AIAnalysisResults : EnrichmentReturns(ai_result)
    \/ EnrichmentFails
    \/ \E reply \in LabelReplies : GenerationAccepted(reply)
    \/ \E reply \in LabelReplies : GenerationRejected(reply)
    \/ \E reply \in LabelReplies : GenerationExhausted(reply)
    \/ GenerationFails
    \/ Fallback

SpecLabel == Init /\ [][NextLabel]_vars

\* send_message running for the same node in a second request while the
\* first request is at one of its awaits (or idle): the second request's
\* own session loads the node, its process_message runs the whole turn
\* (here with a raising enrichment call and a generation call that keeps
\* returning the same reply) and its commit writes the node.
OtherRequest(message, reply) ==
    /\ stored.total_exchange_count < ConcurrentTurns
    /\ LET s1 == [ stored EXCEPT !.total_exchange_count = @ + 1,
                                 !.phase_exchange_count = @ + 1 ]
           s2 == evaluate_phase(update_state_with_patterns(
                     s1, analyze_rules(message, s1)))
           returned == IF validate_response(reply, s2) = <<>>
                       THEN reply ELSE apply_fixes(reply)
       IN  stored' = update_state_from_response(s2, returned)
    /\ UNCHANGED <<state, pc, analysis, attempt, issues, gen_calls,
                   enrich_calls, response>>

\* two requests on one node, up to ConcurrentTurns committed exchanges
NextConcurrent ==
    \/ \E message \in MoveMessages : BeginTurn(message, ConcurrentTurns)
    \/ \E ai_result \in AIAnalysisResults : EnrichmentReturns(ai_result)
    \/ EnrichmentFails
    \/ \E reply \in MoveReplies : GenerationAccepted(reply)
    \/ \E reply \in MoveReplies : GenerationRejected(reply)
    \/ \E reply \in MoveReplies : GenerationExhausted(reply)
    \/ GenerationFails
    \/ Fallback
    \/ \E message \in MoveMessages, reply \in MoveReplies :
           OtherRequest(message, reply)

SpecConcurrent == Init /\ [][NextConcurrent]_vars

\* The replies SpecFix draws from: a clean one and three that _apply_fixes
\* rewrites.
FixReplies ==
    { AIResponse(Txt_i_see, Label_reflection, <<>>, <<>>, <<>>, None),
      AIResponse(Txt_why_understood_how, Label_reflection, <<>>, <<>>, <<>>, None),
      AIResponse(Txt_understood_why, Label_probe, <<>>, <<>>, <<>>, None),
      AIResponse(Txt_ok_why_how, Label_reflection,
                 << [ topic |-> Topic_fear_of_change, type |-> "emotional",
                      emotional_intensity |-> "high", relevance_score |-> 50 ] >>,
                 <<>>, <<"point">>, "core") }

\* conversations of up to FixTurns turns whose replies need the mechanical
\* fixes
NextFix ==
    \/ \E message \in MoveMessages : BeginTurn(message, FixTurns)
    \/ \E ai_result \in AIAnalysisResults : EnrichmentReturns(ai_result)
    \/ EnrichmentFails
    \/ \E reply \in FixReplies : GenerationAccepted(reply)
    \/ \E reply \in FixReplies : GenerationRejected(reply)
    \/ \E reply \in FixReplies : GenerationExhausted(reply)
    \/ GenerationFails
    \/ Fallback

SpecFix == Init /\ [][NextFix]_vars

\* The threads whose score is computed: every intensity, three relevances,
\* the depths and the exchange numbers up to the bounds.
ScoreThreads ==
    { [ id                       |-> <<"t", 1>>,
        topic                    |-> Topic_feeling_trapped,
        type                     |-> "emotional",
        emotional_intensity      |-> e,
        relevance_score          |-> r,
        exploration_depth        |-> d,
        first_mentioned_exchange |-> 0,
        last_touched_exchange    |-> l ] :
        e \in {"low", "medium", "high", "critical"}, r \in {0, 50, 100},
        d \in 0..ScoreDepth, l \in 0..ScoreExchanges }

\* The threads tracked after them.
OtherThreads ==
    { [ id                       |-> <<"t", 2>>,
        topic                    |-> Topic_fear_of_change,
        type                     |-> "mentioned",
        emotional_intensity      |-> e,
        relevance_score          |-> 50,
        exploration_depth        |-> 0,
        first_mentioned_exchange |-> 0,
        last_touched_exchange    |-> 0 ] : e \in {"low", "medium", "critical"} }

\* The states the selection is asked about: none, one or two threads, any
\* of them completed.
ScoreStates ==
    { [ create_initial_state EXCEPT
          !.active_threads = ts, !.total_exchange_count = n,
          !.completed_threads = c ] :
        ts \in {<<>>} \cup { <<t>> : t \in ScoreThreads }
                     \cup { <<t, u>> : t \in ScoreThreads, u \in OtherThreads },
        n \in 0..ScoreExchanges,
        c \in { <<>>, << <<"t", 1>> >>, << <<"t", 2>> >>,
                << <<"t", 1>>, <<"t", 2>> >> } }

InitScore ==
    /\ state \in ScoreStates
    /\ stored = state
    /\ pc = "idle"
    /\ analysis = <<>>
    /\ attempt = 0
    /\ issues = <<>>
    /\ gen_calls = 0
    /\ enrich_calls = 0
    /\ response = <<>>

\* thread.compute_priority_score(current_exchange) is called
ComputeScore(i, current_exchange) ==
    /\ i \in 1..Len(state.active_threads)
    /\ response' = << [ call             |-> "compute_priority_score",
                        thread           |-> i,
                        current_exchange |-> current_exchange,
                        result           |-> compute_priority_score(
                                                 state.active_threads[i],
                                                 current_exchange) ] >>
    /\ UNCHANGED <<stored, state, pc, analysis, attempt, issues, gen_calls,
                   enrich_calls>>

\* state.get_highest_priority_thread() is called
SelectTarget ==
    /\ response' = << [ call   |-> "get_highest_priority_thread",
                        result |-> get_highest_priority_thread(state) ] >>
    /\ UNCHANGED <<stored, state, pc, analysis, attempt, issues, gen_calls,
                   enrich_calls>>

\* the two scoring functions applied to the states of ScoreStates
NextScore ==
    \/ \E i \in 1..2, current_exchange \in 0..ScoreExchanges :
           ComputeScore(i, current_exchange)
    \/ SelectTarget

SpecScore == InitScore /\ [][NextScore]_vars

\* _build_constraints: state.move_history.count(ResponseMove.CHALLENGE)
challenge_count(s) ==
    Cardinality({i \in 1..Len(s.move_history) : s.move_history[i] = "challenge"})

\* _build_constraints: the instructions carry the CHALLENGE LIMIT notice
challenge_limit_notice(s) == challenge_count(s) >= 1

\* The replies SpecChallenge draws from: Challenge turns with and without a
\* synthesis phrase, and a reflection that declares a transition.
ChallengeReplies ==
    { AIResponse(Txt_i_see, Label_challenge, <<>>, <<>>, <<>>, None),
      AIResponse(Txt_so_far, Label_challenge, <<>>, <<>>, <<>>, None),
      [ AIResponse(Txt_i_see, Label_reflection, <<>>, <<>>, <<>>, None)
          EXCEPT !.should_transition = TRUE ] }

\* conversations of up to ChallengeTurns turns in which Challenge moves are
\* offered
NextChallenge ==
    \/ \E message \in MoveMessages : BeginTurn(message, ChallengeTurns)
    \/ \E ai_result \in AIAnalysisResults : EnrichmentReturns(ai_result)
    \/ EnrichmentFails
    \/ \E reply \in ChallengeReplies : GenerationAccepted(reply)
    \/ \E reply \in ChallengeReplies : GenerationRejected(reply)
    \/ \E reply \in ChallengeReplies : GenerationExhausted(reply)
    \/ GenerationFails
    \/ Fallback

SpecChallenge == Init /\ [][NextChallenge]_vars

\* The replies SpecLong draws from: one that declares nothing and one that
\* declares a transition.
LongReplies ==
    { AIResponse(Txt_i_see, Label_reflection, <<>>, <<>>, <<>>, None),
      [ AIResponse(Txt_i_see, Label_reflection, <<>>, <<>>, <<>>, None)
          EXCEPT !.should_transition = TRUE ] }

\* The user messages SpecLong draws from.
LongMessages == {Msg_ok}

\* conversations of up to LongTurns turns, long enough to run every phase to
\* its maximum
NextLong ==
    \/ \E message \in LongMessages : BeginTurn(message, LongTurns)
    \/ \E ai_result \in AIAnalysisResults : EnrichmentReturns(ai_result)
    \/ EnrichmentFails
    \/ \E reply \in LongReplies : GenerationAccepted(reply)
    \/ \E reply \in LongReplies : GenerationRejected(reply)
    \/ \E reply \in LongReplies : GenerationExhausted(reply)
    \/ GenerationFails
    \/ Fallback

SpecLong == Init /\ [][NextLong]_vars

\* The replies SpecTrack draws from: an Observation move that declares a
\* thread and an observation, a Synthesis move, and a reflection.
TrackReplies ==
    { AIResponse(Txt_i_see, Label_observation,
                 << [ topic |-> Topic_fear_of_change, type |-> "emotional",
                      emotional_intensity |-> "high", relevance_score |-> 50 ] >>,
                 << [ type |-> "pattern", text |-> Obs_Avoids_ai,
                      confidence |-> 70 ] >>,
                 <<>>, None),
      AIResponse(Txt_so_far, Label_synthesis, <<>>, <<>>, <<"point">>, None),
      AIResponse(Txt_i_see, Label_reflection, <<>>, <<>>, <<>>, None) }

\* The user messages SpecTrack draws from.
TrackMessages == {Msg_ok, Msg_trapped}

\* conversations of up to TrackTurns turns that add, touch and surface
\* threads and observations and record syntheses
NextTrack ==
    \/ \E message \in TrackMessages : BeginTurn(message, TrackTurns)
    \/ \E ai_result \in AIAnalysisResults : EnrichmentReturns(ai_result)
    \/ EnrichmentFails
    \/ \E reply \in TrackReplies : GenerationAccepted(reply)
    \/ \E reply \in TrackReplies : GenerationRejected(reply)
    \/ \E reply \in TrackReplies : GenerationExhausted(reply)
    \/ GenerationFails
    \/ Fallback

SpecTrack == Init /\ [][NextTrack]_vars

---------------------------------------------------------------------------
(* Properties                                                              *)

\* the engine is between the start of process_message and its return
InTurn == pc \in {"enrich", "generate"}

\* this step is the return of process_message (the state is saved)
TurnReturns == pc = "generate" /\ pc' = "idle"

\* C1: across turns the phase never moves backwards in
\* Opening < Exploration < Deepening < Insight < Closing: the state a turn
\* returns (and the state object at every point of the turn) is at the phase
\* of the state the turn was given, or later.
C1_PhaseNeverDecreases ==
    [][ /\ PhaseIndex(stored'.current_phase) >= PhaseIndex(stored.current_phase)
        /\ PhaseIndex(state'.current_phase) >= PhaseIndex(stored.current_phase) ]_vars

C1_Witness ==
    /\ pc = "idle"
    /\ response # <<>>
    /\ stored.total_exchange_count >= 2
    /\ stored.current_phase = "deepening"

\* C2: one turn never skips a phase: the phase of the state a turn returns is
\* the phase of the state it was given or the immediate successor.
C2_NoPhaseSkipped ==
    [][ PhaseIndex(stored'.current_phase) <= PhaseIndex(stored.current_phase) + 1 ]_vars

\* C3: every phase advance made during a turn is made in a state whose
\* phase_exchange_count is at least min_exchanges of the phase being left.
C3_NoAdvanceBeforeMin ==
    [][ (InTurn /\ state'.current_phase # state.current_phase)
            => state.phase_exchange_count >= min_exchanges(state.current_phase) ]_vars

\* C4: whenever phase_exchange_count has reached max_exchanges of the phase,
\* should_transition_phase answers true, and a turn whose phase evaluation
\* saw this in a phase other than Closing returns in the next phase.
C4_MaxForcesNextPhase ==
    [][ /\ (state.phase_exchange_count >= max_exchanges(state.current_phase))
              => should_transition_phase(state)[1]
        /\ ( /\ TurnReturns
             /\ stored.current_phase # "closing"
             /\ stored.phase_exchange_count + 1 >= max_exchanges(stored.current_phase) )
              => PhaseIndex(stored'.current_phase)
                     = PhaseIndex(stored.current_phase) + 1 ]_vars

C6_AdvanceIsOneStepAndResets ==
    [][ (InTurn /\ state'.current_phase # state.current_phase)
            => /\ PhaseIndex(state'.current_phase) = PhaseIndex(state.current_phase) + 1
               /\ state'.phase_exchange_count = 0
               /\ (state'.current_phase = "closing") => state'.ready_for_options ]_vars

\* the phase evaluation has just advanced the state into Closing
C6_Witness ==
    /\ pc = "generate"
    /\ state.current_phase = "closing"
    /\ stored.current_phase = "insight"
    /\ state.phase_exchange_count = 0
    /\ state.ready_for_options

\* C7: when the generation call fails, the state object handed to
\* process_message is exactly as it was before the call.
C7_FailedTurnLeavesStateUntouched ==
    (pc = "failed") => (state = stored)

\* C8: the regeneration loop issues at most 3 generation calls in a turn, and
\* it issues another call only after a validation that reported an issue.
C8_LoopBounded ==
    [][ /\ gen_calls' <= 3
        /\ attempt' <= 2
        /\ (pc = "generate" /\ gen_calls' > gen_calls) => (issues' # <<>>) ]_vars

\* a turn has returned after two regenerations
C8_Witness ==
    /\ pc = "idle"
    /\ response # <<>>
    /\ gen_calls = 3
    /\ issues # <<>>

\* C9, as claimed: a whole turn, pattern detection included, issues at most
\* 3 calls to the generation collaborator.
C9_AtMostThreeCallsPerTurn ==
    enrich_calls + gen_calls <= 3

\* C9, amended: a whole turn issues at most 4 calls: at most one by the
\* pattern detector's enrichment and at most 3 by the regeneration loop,
\* which alone repeats a call.
C9_AtMostFourCallsPerTurn ==
    /\ enrich_calls <= 1
    /\ gen_calls <= 3
    /\ enrich_calls + gen_calls <= 4

\* a turn has returned after the enrichment call and three generation calls
C9_Witness ==
    /\ pc = "idle"
    /\ response # <<>>
    /\ enrich_calls = 1
    /\ gen_calls = 3

\* C10: the turn text process_message returns, accepted clean or after the
\* mechanical fixes, holds at most one question mark.
C10_AtMostOneQuestionReturned ==
    (pc = "idle" /\ response # <<>>)
        => CountChar(PsychologistResponse(response[1], stored).response, "?") <= 1

\* C11: the turn text process_message returns, accepted clean or after the
\* mechanical fixes of the final attempt, matches none of the banned
\* shallow-question patterns (the first four of BANNED_QUESTION_PATTERNS).
C11_NoShallowQuestionReturned ==
    (pc = "idle" /\ response # <<>>)
        => \A k \in 1..4 :
              ~banned_pattern_found(
                   k, Lower(PsychologistResponse(response[1], stored).response))

\* C12, as claimed: for every state at validation and every candidate turn, a
\* text with zero '?', no banned opener, a declared move in the phase's
\* allowed set and (when total_exchange_count - last_synthesis_exchange >= 3)
\* a synthesis-indicator phrase gets an empty issue list.
C12_CleanTurnHasNoIssues ==
    (pc = "generate") =>
        \A c \in Candidates :
            LET text == Lower(c.response)
                move == parse_move(c.response_move)
                phase == state.current_phase
                allowed ==
                    CASE phase = "opening" -> {"reflection", "deepening_question"}
                      [] phase = "exploration" ->
                           {"reflection", "deepening_question", "observation"}
                      [] phase = "deepening" ->
                           {"reflection", "observation", "challenge", "synthesis",
                            "deepening_question"}
                      [] phase = "insight" -> {"synthesis", "insight", "reflection"}
                      [] phase = "closing" -> {"synthesis", "transition", "insight"}
                synthesis_due ==
                    state.total_exchange_count - state.last_synthesis_exchange >= 3
                has_phrase ==
                    \E k \in 1..Len(synthesis_indicators) :
                        Contains(text, synthesis_indicators[k])
            IN  ( /\ CountChar(text, "?") = 0
                  /\ ~StartsWith(text, S_understood)
                  /\ ~StartsWith(text, S_got_it)
                  /\ move \in allowed
                  /\ synthesis_due => has_phrase )
                => validate_response(c, state) = <<>>

\* C12, amended: such a text gets an empty issue list when, in addition, it
\* matches no banned shallow-question pattern and its move is not a
\* DeepeningQuestion that follows two DeepeningQuestion moves.
C12_CleanTurnWithoutShallowOrRepeat ==
    (pc = "generate") =>
        \A c \in Candidates :
            LET text == Lower(c.response)
                move == parse_move(c.response_move)
                phase == state.current_phase
                allowed ==
                    CASE phase = "opening" -> {"reflection", "deepening_question"}
                      [] phase = "exploration" ->
                           {"reflection", "deepening_question", "observation"}
                      [] phase = "deepening" ->
                           {"reflection", "observation", "challenge", "synthesis",
                            "deepening_question"}
                      [] phase = "insight" -> {"synthesis", "insight", "reflection"}
                      [] phase = "closing" -> {"synthesis", "transition", "insight"}
                synthesis_due ==
                    state.total_exchange_count - state.last_synthesis_exchange >= 3
                has_phrase ==
                    \E k \in 1..Len(synthesis_indicators) :
                        Contains(text, synthesis_indicators[k])
                n == Len(state.move_history)
                repeated ==
                    /\ move = "deepening_question"
                    /\ n >= 2
                    /\ state.move_history[n] = "deepening_question"
                    /\ state.move_history[n - 1] = "deepening_question"
            IN  ( /\ CountChar(text, "?") = 0
                  /\ ~StartsWith(text, S_understood)
                  /\ ~StartsWith(text, S_got_it)
                  /\ \A k \in 1..4 : ~banned_pattern_found(k, text)
                  /\ move \in allowed
                  /\ ~repeated
                  /\ synthesis_due => has_phrase )
                => validate_response(c, state) = <<>>

\* a synthesis is due at validation and a candidate that carries a synthesis
\* phrase, no '?' and an allowed move validates clean
C12_Witness ==
    /\ pc = "generate"
    /\ state.total_exchange_count - state.last_synthesis_exchange >= 3
    /\ \E c \in Candidates :
          /\ CountChar(c.response, "?") = 0
          /\ Contains(Lower(c.response), Ind_so_far)
          /\ is_move_allowed_in_phase(parse_move(c.response_move), state.current_phase)
          /\ validate_response(c, state) = <<>>

\* C13: for every state at validation and every candidate turn, the issue list
\* holds exactly one issue for each violated rule category (robotic-opener,
\* shallow-question, multiple-questions, missing-synthesis, phase-mismatch,
\* repeated-question) and none for the others: it is as long as the number of
\* violated categories.
C13_OneIssuePerViolatedCategory ==
    (pc = "generate") =>
        \A c \in Candidates :
            LET text == Lower(c.response)
                move == parse_move(c.response_move)
                n == Len(state.move_history)
                violated ==
                    { cat \in { "robotic-opener", "shallow-question",
                                "multiple-questions", "missing-synthesis",
                                "phase-mismatch", "repeated-question" } :
                        CASE cat = "robotic-opener" ->
                               StartsWith(text, S_understood) \/ StartsWith(text, S_got_it)
                          [] cat = "shallow-question" ->
                               \E k \in 1..4 : banned_pattern_found(k, text)
                          [] cat = "multiple-questions" -> CountChar(text, "?") > 1
                          [] cat = "missing-synthesis" ->
                               /\ state.total_exchange_count
                                    - state.last_synthesis_exchange >= 3
                               /\ \A k \in 1..Len(synthesis_indicators) :
                                     ~Contains(text, synthesis_indicators[k])
                          [] cat = "phase-mismatch" ->
                               move \notin allowed_moves(state.current_phase)
                          [] cat = "repeated-question" ->
                               /\ move = "deepening_question"
                               /\ n >= 2
                               /\ state.move_history[n] = "deepening_question"
                               /\ state.move_history[n - 1] = "deepening_question" }
            IN  Len(validate_response(c, state)) = Cardinality(violated)

\* C14: for every state at validation and every candidate turn (one or more
\* for each of the seven moves), the validator
\* reports a phase-mismatch issue exactly when the declared move is outside
\* the allowed set of the phase in effect after this turn's phase evaluation:
\* Opening {Reflection, DeepeningQuestion}, Exploration {Reflection,
\* DeepeningQuestion, Observation}, Deepening {Reflection, Observation,
\* Challenge, Synthesis, DeepeningQuestion}, Insight {Synthesis, Insight,
\* Reflection}, Closing {Synthesis, Transition, Insight}.
C14_PhaseMismatchExactly ==
    (pc = "generate") =>
        \A c \in {x \in Candidates : x.response \in {Txt_i_see, Txt_so_far}} :
            LET move == parse_move(c.response_move)
                phase == state.current_phase
                table ==
                    [ opening     |-> {"reflection", "deepening_question"},
                      exploration |-> {"reflection", "deepening_question",
                                       "observation"},
                      deepening   |-> {"reflection", "observation", "challenge",
                                       "synthesis", "deepening_question"},
                      insight     |-> {"synthesis", "insight", "reflection"},
                      closing     |-> {"synthesis", "transition", "insight"} ]
                found == validate_response(c, state)
                mismatches ==
                    {i \in 1..Len(found) : found[i].kind = "move_not_appropriate"}
            IN  /\ (mismatches # {}) <=> (move \notin table[phase])
                /\ Cardinality(mismatches) <= 1
                /\ \A i \in mismatches :
                      found[i].move = move /\ found[i].phase = phase

\* the phase evaluation of this turn has moved the state from Insight to
\* Closing, and a Reflection candidate, allowed in Insight, is reported
C14_Witness ==
    /\ pc = "generate"
    /\ stored.current_phase = "insight"
    /\ state.current_phase = "closing"
    /\ \E c \in Candidates :
          /\ parse_move(c.response_move) = "reflection"
          /\ \E i \in 1..Len(validate_response(c, state)) :
                validate_response(c, state)[i].kind = "move_not_appropriate"

C16_RepeatedQuestionExactly ==
    (pc = "generate") =>
        \A c \in Candidates :
            LET move == parse_move(c.response_move)
                n == Len(state.move_history)
                found == validate_response(c, state)
                repeats ==
                    {i \in 1..Len(found) : found[i].kind = "consecutive_questions"}
            IN  /\ (repeats # {}) <=>
                      ( /\ move = "deepening_question"
                        /\ n >= 2
                        /\ state.move_history[n] = "deepening_question"
                        /\ state.move_history[n - 1] = "deepening_question" )
                /\ Cardinality(repeats) <= 1
                /\ (n < 2) => (repeats = {})

\* two DeepeningQuestion moves were accepted and a third is reported, while a
\* Reflection candidate in the same state is not
C16_Witness ==
    /\ pc = "generate"
    /\ Len(state.move_history) >= 2
    /\ \E c \in Candidates :
          /\ parse_move(c.response_move) = "deepening_question"
          /\ \E i \in 1..Len(validate_response(c, state)) :
                validate_response(c, state)[i].kind = "consecutive_questions"
    /\ \E c \in Candidates :
          /\ parse_move(c.response_move) = "reflection"
          /\ \A i \in 1..Len(validate_response(c, state)) :
                validate_response(c, state)[i].kind # "consecutive_questions"

\* C17: in every state reachable from a fresh state, during a turn and
\* between turns, no two tracked threads have the same lower-cased topic and no
\* two tracked observations have the same lower-cased text.
C17_NoDuplicateTopicsOrTexts ==
    \A s \in {state, stored} :
        /\ \A i, j \in 1..Len(s.active_threads) :
              (i # j) => Lower(s.active_threads[i].topic)
                            # Lower(s.active_threads[j].topic)
        /\ \A i, j \in 1..Len(s.observations) :
              (i # j) => Lower(s.observations[i].text) # Lower(s.observations[j].text)

\* the detector's threads and observation are tracked, and a reply that
\* declared the tracked observation in other letter case has been folded in
C17_Witness ==
    /\ pc = "idle"
    /\ response # <<>>
    /\ Len(response[1].observations_detected) > 0
    /\ response[1].observations_detected[1].text = Obs_Avoids_ai
    /\ \E i \in 1..Len(stored.observations) : stored.observations[i].text = Obs_avoids
    /\ \E i, j \in 1..Len(stored.active_threads) :
          /\ stored.active_threads[i].topic = Topic_Feeling_Trapped_ai
          /\ stored.active_threads[j].topic = Topic_values_peace

\* C18: no thread is tracked next to an earlier tracked thread with which it
\* shares at least 50% of the words of its topic: a thread like that is never
\* added to the state as a second thread.
C18_NoOverlappingThreadAdded ==
    \A i, j \in 1..Len(state.active_threads) :
        (i < j) =>
            LET t_words == Range(SplitWords(Lower(state.active_threads[j].topic)))
                e_words == Range(SplitWords(Lower(state.active_threads[i].topic)))
            IN  2 * Cardinality(t_words \cap e_words) < Cardinality(t_words)

\* C19: an observation's surfaced flag is monotonic: an observation that is
\* surfaced stays tracked, the same observation, and surfaced after every
\* step, in the state object and in the saved state; and one turn sets the
\* flag on at most one observation.
C19_SurfacedIsMonotonic ==
    [][ /\ \A i \in 1..Len(stored.observations) :
              stored.observations[i].surfaced
                  => /\ i <= Len(stored'.observations)
                     /\ stored'.observations[i].id = stored.observations[i].id
                     /\ stored'.observations[i].text = stored.observations[i].text
                     /\ stored'.observations[i].surfaced
        /\ \A i \in 1..Len(state.observations) :
              state.observations[i].surfaced
                  => /\ i <= Len(state'.observations)
                     /\ state'.observations[i].id = state.observations[i].id
                     /\ state'.observations[i].surfaced
        /\ Cardinality({ i \in 1..Len(stored'.observations) :
                           /\ stored'.observations[i].surfaced
                           /\ (i <= Len(stored.observations))
                                 => ~stored.observations[i].surfaced }) <= 1 ]_vars

\* two observations were surfaced by two turns and the first is still
\* surfaced
C19_Witness ==
    /\ pc = "idle"
    /\ \E i, j \in 1..Len(stored.observations) :
          /\ stored.observations[i].surfaced
          /\ stored.observations[j].surfaced
          /\ stored.observations[i].surfaced_at_exchange
                < stored.observations[j].surfaced_at_exchange

\* C20, as claimed: when a turn returns with the Observation move and the
\* state, with the reply's observations folded in, holds an observation with
\* surfaced = false, the earliest-added one becomes surfaced with
\* surfaced_at_exchange = total_exchange_count; when the move is not
\* Observation no surfaced flag changes.
C20_EarliestUnsurfacedIsSurfaced ==
    [][ TurnReturns =>
          LET move == parse_move(response'[1].response_move)
              before(i) == IF i <= Len(state.observations)
                           THEN state.observations[i].surfaced ELSE FALSE
              unsurfaced == {i \in 1..Len(stored'.observations) : ~before(i)}
          IN  IF move = "observation"
              THEN (unsurfaced # {}) =>
                      LET first == CHOOSE i \in unsurfaced : \A j \in unsurfaced : i <= j
                      IN  /\ stored'.observations[first].surfaced
                          /\ stored'.observations[first].surfaced_at_exchange
                                = stored'.total_exchange_count
              ELSE \A i \in 1..Len(stored'.observations) :
                      stored'.observations[i].surfaced = before(i) ]_vars

\* C20, amended: the observation that becomes surfaced is the earliest-added
\* one with surfaced = false and confidence >= 0.6; no other flag changes, and
\* none changes when there is no such observation or the move is not
\* Observation.
C20_EarliestConfidentUnsurfacedIsSurfaced ==
    [][ TurnReturns =>
          LET move == parse_move(response'[1].response_move)
              before(i) == IF i <= Len(state.observations)
                           THEN state.observations[i].surfaced ELSE FALSE
              eligible == {i \in 1..Len(stored'.observations) :
                              ~before(i) /\ stored'.observations[i].confidence >= 60}
              first == CHOOSE i \in eligible : \A j \in eligible : i <= j
          IN  IF move = "observation" /\ eligible # {}
              THEN /\ stored'.observations[first].surfaced
                   /\ stored'.observations[first].surfaced_at_exchange
                         = stored'.total_exchange_count
                   /\ \A i \in 1..Len(stored'.observations) \ {first} :
                         stored'.observations[i].surfaced = before(i)
              ELSE \A i \in 1..Len(stored'.observations) :
                      stored'.observations[i].surfaced = before(i) ]_vars

\* an Observation move has surfaced the second observation while the first,
\* of confidence 0.5, stays unsurfaced
C20_Witness ==
    /\ pc = "idle"
    /\ response # <<>>
    /\ stored.last_move = "observation"
    /\ \E i, j \in 1..Len(stored.observations) :
          /\ i < j
          /\ ~stored.observations[i].surfaced
          /\ stored.observations[i].confidence < 60
          /\ stored.observations[j].surfaced
          /\ stored.observations[j].surfaced_at_exchange = stored.total_exchange_count

\* C21: every thread's exploration_depth lies in 0..3 and never decreases
\* from one committed turn to the next; when a turn's detection results are
\* applied, a thread already tracked gets depth min(depth + 1, 3) and
\* last_touched_exchange = the current exchange count if a word of its
\* topic longer than 3 characters occurs in the lower-cased message, and
\* keeps both fields otherwise; the rest of the turn leaves both alone.
C21_DepthBoundedMonotoneRaisedWhenTouched ==
    [][ /\ \A i \in 1..Len(state'.active_threads) :
              state'.active_threads[i].exploration_depth \in 0..3
        /\ \A i \in 1..Len(stored.active_threads) :
              /\ i <= Len(stored'.active_threads)
              /\ stored'.active_threads[i].exploration_depth
                     >= stored.active_threads[i].exploration_depth
        /\ (pc = "enrich" /\ pc' = "generate") =>
              \A i \in 1..Len(state.active_threads) :
                 LET old   == state.active_threads[i]
                     new   == state'.active_threads[i]
                     words == SplitWords(Lower(old.topic))
                     hit   == \E k \in 1..Len(words) :
                                 /\ Len(words[k]) > 3
                                 /\ Contains(Lower(analysis[2]), words[k])
                     cap   == IF old.exploration_depth + 1 <= 3
                              THEN old.exploration_depth + 1 ELSE 3
                 IN  IF hit
                     THEN /\ new.exploration_depth = cap
                          /\ new.last_touched_exchange = state.total_exchange_count
                     ELSE /\ new.exploration_depth = old.exploration_depth
                          /\ new.last_touched_exchange = old.last_touched_exchange
        /\ (pc = "generate" /\ pc' = "idle") =>
              \A i \in 1..Len(state.active_threads) :
                 /\ state'.active_threads[i].exploration_depth
                        = state.active_threads[i].exploration_depth
                 /\ state'.active_threads[i].last_touched_exchange
                        = state.active_threads[i].last_touched_exchange
      ]_vars

\* a thread at depth 3 has been touched again, at a later exchange, and is
\* still at depth 3; another thread was left untouched below it
C21_Witness ==
    /\ pc = "generate"
    /\ \E i, j \in 1..Len(state.active_threads) :
          /\ i <= Len(stored.active_threads)
          /\ stored.active_threads[i].exploration_depth = 3
          /\ state.active_threads[i].exploration_depth = 3
          /\ state.active_threads[i].last_touched_exchange = state.total_exchange_count
          /\ stored.active_threads[i].last_touched_exchange < state.total_exchange_count
          /\ state.active_threads[j].exploration_depth < 3
          /\ state.active_threads[j].last_touched_exchange < state.total_exchange_count

C23_ScoreWithinRange ==
    (response # <<>> /\ response[1].call = "compute_priority_score")
        => response[1].result \in 0..10000

\* C24: get_highest_priority_thread returns a tracked thread whose id is not
\* in completed_threads and whose score at total_exchange_count is at least
\* that of every other such thread; it returns None exactly when every
\* tracked thread is completed or none is tracked.
C24_TargetIsBestOpenThread ==
    (response # <<>> /\ response[1].call = "get_highest_priority_thread") =>
        LET completed == Range(state.completed_threads)
            open      == { i \in 1..Len(state.active_threads) :
                             state.active_threads[i].id \notin completed }
            sc(i)     == compute_priority_score(state.active_threads[i],
                                                state.total_exchange_count)
            result    == response[1].result
        IN  /\ (result = <<>>) <=> (open = {})
            /\ result # <<>> =>
                 \E i \in open :
                    /\ result[1] = state.active_threads[i]
                    /\ \A j \in open : sc(i) >= sc(j)

\* a thread was returned while a completed thread scores higher
C24_Witness ==
    /\ response # <<>>
    /\ response[1].call = "get_highest_priority_thread"
    /\ response[1].result # <<>>
    /\ \E i \in 1..Len(state.active_threads) :
          /\ state.active_threads[i].id \in Range(state.completed_threads)
          /\ compute_priority_score(state.active_threads[i],
                                    state.total_exchange_count)
               > compute_priority_score(response[1].result[1],
                                        state.total_exchange_count)

\* C25: when the enrichment call raises, the turn goes on to its first
\* generation call instead of failing, and the state it generates from holds
\* the rule-based findings only: the tracked topics are the earlier ones
\* plus the rule-based topics of the message, the tracked observation texts
\* are the earlier ones plus the rule-based texts, tracked threads get the
\* depth update of the message, and the dominant emotion is the rule-based
\* one.
C25_FailedEnrichmentKeepsRuleResults ==
    [][ pc = "enrich" =>
          LET message == analysis[2]
              rule    == rule_based_analysis(message)
              topics(threads) == { Lower(threads[i].topic) : i \in 1..Len(threads) }
              texts(obs)      == { Lower(obs[i].text) : i \in 1..Len(obs) }
          IN  /\ pc' = "generate"
              /\ gen_calls' = 1
              /\ analysis[1].new_threads = rule.new_threads
              /\ analysis[1].new_observations = rule.new_observations
              /\ analysis[1].dominant_emotion = rule.dominant_emotion
              /\ analysis[1].updated_thread_depths
                     = update_thread_depths(message, state.active_threads)
              /\ topics(state'.active_threads)
                     = topics(state.active_threads) \cup topics(rule.new_threads)
              /\ texts(state'.observations)
                     = texts(state.observations) \cup texts(rule.new_observations)
              /\ \A k \in 1..Len(analysis[1].updated_thread_depths) :
                    \E i \in 1..Len(state'.active_threads) :
                       /\ state'.active_threads[i].id
                              = analysis[1].updated_thread_depths[k][1]
                       /\ state'.active_threads[i].exploration_depth
                              = analysis[1].updated_thread_depths[k][2]
              /\ state'.dominant_emotion = rule.dominant_emotion
              /\ state'.total_exchange_count = state.total_exchange_count
      ]_vars

\* a turn whose enrichment call raised is generating from a state that holds
\* the rule-based thread and observation of its message and a raised depth
C25_Witness ==
    /\ pc = "generate"
    /\ enrich_calls = 1
    /\ gen_calls = 1
    /\ \E i \in 1..Len(state.observations) :
          /\ state.observations[i].text = Obs_should_but
          /\ i > Len(stored.observations)
    /\ \E i \in 1..Len(state.active_threads) :
          /\ state.active_threads[i].topic = Topic_feeling_trapped
          /\ state.active_threads[i].exploration_depth = 1
    /\ state.dominant_emotion = "frustrated"

\* C26: a reply whose declared label, with '-' read as '_' and case ignored,
\* is none of the seven moves is validated exactly as the same reply
\* labelled deepening_question, and when it is returned the turn commits
\* with deepening_question as last_move, as the one entry added to
\* move_history and as the move of the returned response.
C26_UnknownLabelIsDeepeningQuestion ==
    [][ LET known == { Label_reflection, Label_observation, Label_challenge,
                       Label_deepening_question, Label_synthesis, Label_insight,
                       Label_transition }
            unknown(l) == Lower([i \in 1..Len(l) |->
                                    IF l[i] = "-" THEN "_" ELSE l[i]]) \notin known
        IN  /\ pc = "generate" =>
                 \A x \in LabelReplies \cup Candidates :
                    unknown(x.response_move) =>
                       validate_response(x, state)
                         = validate_response(
                               [x EXCEPT !.response_move = Label_deepening_question],
                               state)
            /\ ( /\ pc = "generate" /\ pc' = "idle"
                 /\ unknown(response'[1].response_move) ) =>
                 /\ stored'.last_move = "deepening_question"
                 /\ stored'.move_history
                        = Append(state.move_history, "deepening_question")
                 /\ PsychologistResponse(response'[1], stored').response_move
                        = "deepening_question"
      ]_vars

\* a reply labelled 'probe' was refused as a third question in a row, and
\* was returned and recorded as a deepening question
C26_Witness ==
    /\ pc = "idle"
    /\ response # <<>>
    /\ response[1].response_move = Label_probe
    /\ \E k \in 1..Len(issues) : issues[k].kind = "consecutive_questions"
    /\ stored.move_history
          = <<"deepening_question", "deepening_question", "deepening_question">>

\* C27: a turn that commits was processed from the state stored at the
\* moment it commits, so every commit adds exactly one exchange and one
\* move to what is stored and no committed turn is overwritten.
C27_CommitExtendsStoredState ==
    [][ (pc = "generate" /\ pc' = "idle") =>
          /\ stored'.total_exchange_count = stored.total_exchange_count + 1
          /\ Len(stored'.move_history) = Len(stored.move_history) + 1
      ]_vars

\* C28: the correction block built from the issues of a refused reply holds
\* no instruction line twice.
C28_NoInstructionLineTwice ==
    (pc = "generate" /\ attempt < MAX_REGEN_ATTEMPTS) =>
        \A x \in Candidates :
            LET corrections == build_correction_prompt(validate_response(x, state))
            IN  \A i, j \in 1..Len(corrections) :
                    i # j => corrections[i] # corrections[j]

\* C29: on the final attempt the mechanical fixes give a reply that differs
\* from the refused one in its text only (same declared move, threads,
\* observations, synthesis points, core issue and should_transition), whose
\* text is no longer than the refused text and holds no word that is not
\* the end of a word of the refused text, and the state committed is the
\* one the refused reply would have given; a returned fixed reply is such a
\* reply.
C29_FixesChangeOnlyTheText ==
    [][ (pc = "generate" /\ attempt >= MAX_REGEN_ATTEMPTS) =>
          LET EndOf(w, v) == /\ Len(w) <= Len(v)
                             /\ SubSeq(v, Len(v) - Len(w) + 1, Len(v)) = w
              OnlyText(f, x) ==
                  /\ f.response_move = x.response_move
                  /\ f.threads_detected = x.threads_detected
                  /\ f.observations_detected = x.observations_detected
                  /\ f.synthesis_points = x.synthesis_points
                  /\ f.core_issue = x.core_issue
                  /\ f.should_transition = x.should_transition
                  /\ [f EXCEPT !.response = x.response] = x
                  /\ Len(f.response) <= Len(x.response)
                  /\ \A w \in Range(SplitWords(f.response)) :
                        \E v \in Range(SplitWords(x.response)) : EndOf(w, v)
          IN  /\ \A x \in FixReplies :
                    /\ OnlyText(apply_fixes(x), x)
                    /\ update_state_from_response(state, apply_fixes(x))
                           = update_state_from_response(state, x)
              /\ (pc' = "idle" /\ issues' # <<>>) =>
                    \E x \in FixReplies :
                       /\ validate_response(x, state) = issues'
                       /\ OnlyText(response'[1], x)
                       /\ stored' = update_state_from_response(state, x)
      ]_vars

\* a reply refused for its opener and for the missing synthesis was returned
\* without the opener and without a synthesis, its label as declared, and no
\* synthesis was recorded
C29_Witness ==
    /\ pc = "idle"
    /\ response # <<>>
    /\ response[1].response = Txt_why
    /\ response[1].response_move = Label_probe
    /\ \E k \in 1..Len(issues) : issues[k].kind = "understood_opener"
    /\ \E k \in 1..Len(issues) : issues[k].kind = "missing_synthesis"
    /\ stored.synthesis_points = <<>>
    /\ stored.last_synthesis_exchange = 0

\* C30: in every state whose phase_exchange_count is at least min_exchanges
\* and below max_exchanges of its phase, should_transition_phase answers true
\* exactly when a condition of the phase holds (Opening: 2 or more threads;
\* Exploration: an observation, or a thread of depth 2 or more; Deepening:
\* the core issue identified, or a surfaced observation; Insight: an insight
\* among the last 3 moves; Closing: none) and names the first that holds;
\* and a turn that is the first or second of a conversation still in Opening
\* and ends with fewer than 2 threads tracked ends in Opening.
C30_TransitionExactlyOnConditions ==
    [][ /\ ( /\ state.phase_exchange_count >= min_exchanges(state.current_phase)
             /\ state.phase_exchange_count < max_exchanges(state.current_phase) )
            => LET p  == state.current_phase
                   c1 == CASE p = "opening" -> Len(state.active_threads) >= 2
                           [] p = "exploration" -> Len(state.observations) > 0
                           [] p = "deepening" -> state.core_issue_identified
                           [] p = "insight" ->
                                \E i \in 1..Len(state.move_history) :
                                   /\ i > Len(state.move_history) - 3
                                   /\ state.move_history[i] = "insight"
                           [] p = "closing" -> FALSE
                   c2 == CASE p = "exploration" ->
                                \E i \in 1..Len(state.active_threads) :
                                   state.active_threads[i].exploration_depth >= 2
                           [] p = "deepening" ->
                                \E i \in 1..Len(state.observations) :
                                   state.observations[i].surfaced
                           [] OTHER -> FALSE
                   n1 == CASE p = "opening" -> "threads_identified"
                           [] p = "exploration" -> "pattern_detected"
                           [] p = "deepening" -> "core_issue_identified"
                           [] p = "insight" -> "insight_given"
                           [] p = "closing" -> None
                   n2 == CASE p = "exploration" -> "thread_explored"
                           [] p = "deepening" -> "observation_surfaced"
                           [] OTHER -> None
               IN  should_transition_phase(state)
                     = IF c1 THEN <<TRUE, n1>>
                       ELSE IF c2 THEN <<TRUE, n2>>
                       ELSE <<FALSE, None>>
        /\ ( /\ TurnReturns
             /\ stored.current_phase = "opening"
             /\ stored'.total_exchange_count <= 2
             /\ Len(stored'.active_threads) < 2 )
            => stored'.current_phase = "opening"
      ]_vars

\* C31: the turn text process_message returns, accepted clean or after the
\* mechanical fixes, does not start with 'understood' or 'got it', whatever
\* the case of its letters.
C31_NoBannedOpenerReturned ==
    (pc = "idle" /\ response # <<>>) =>
        LET text == Lower(PsychologistResponse(response[1], stored).response)
        IN  /\ ~StartsWith(text, S_understood)
            /\ ~StartsWith(text, S_got_it)

\* C32: each issue of a refused reply gets the correction line of its own
\* category: a move refused for the phase gets the 'different response
\* move' line whatever the move, a third question in a row does not get the
\* 'only ONE question' line, and a shallow-question pattern gets the 'do
\* not ask what type/kind' line.
C32_CorrectionLineOfOwnCategory ==
    pc = "generate" =>
        \A x \in Candidates :
            LET found == validate_response(x, state)
            IN  \A k \in 1..Len(found) :
                    LET line == build_correction_prompt(<<found[k]>>)
                    IN  /\ found[k].kind = "move_not_appropriate"
                            => line = << "Use a different response move" >>
                        /\ found[k].kind = "consecutive_questions"
                            => line # << "Ask only ONE question per response." >>
                        /\ ( /\ found[k].kind = "banned_pattern"
                             /\ \E n \in 1..4 :
                                   found[k].pattern = BannedPatternNames[n] )
                            => line = << "DO NOT ask 'What type/kind of X?'" >>

\* C33: a conversation contains at most one Challenge move: move_history
\* holds the Challenge move at most once in the saved state and in the state
\* of the running turn, and whenever move_history holds a Challenge move the
\* instructions built for the turn carry the notice that no further
\* challenge may be made.
C33_AtMostOneChallenge ==
    /\ challenge_count(stored) <= 1
    /\ challenge_count(state) <= 1
    /\ (pc = "generate" /\ \E i \in 1..Len(state.move_history) :
                              state.move_history[i] = "challenge")
           => challenge_limit_notice(state)

\* C34: move_history never records two DeepeningQuestion moves in a row:
\* in the saved state, and in the state of the running turn, a
\* DeepeningQuestion entry is never directly followed by another one.
C34_NoTwoQuestionsInARow ==
    \A s \in {stored, state} :
        \A i \in 1..(Len(s.move_history) - 1) :
            ~(/\ s.move_history[i] = "deepening_question"
              /\ s.move_history[i + 1] = "deepening_question")

C36_ClosingWithinFifteenTurns ==
    /\ stored.total_exchange_count >= 15
           => /\ stored.current_phase = "closing"
              /\ stored.ready_for_options
    /\ stored.current_phase # "closing"
           => stored.phase_exchange_count <
                  ( CASE stored.current_phase = "opening" -> 3
                      [] stored.current_phase = "exploration" -> 5
                      [] stored.current_phase = "deepening" -> 4
                      [] stored.current_phase = "insight" -> 3 )

\* the slowest conversation: every phase ran to its maximum, and the 15th
\* turn is the one that enters Closing
C36_Witness ==
    /\ pc = "idle"
    /\ stored.total_exchange_count = 15
    /\ stored.current_phase = "closing"
    /\ stored.phase_exchange_count = 0
    /\ stored.ready_for_options
    /\ stored.transition_reason = MaxReason("insight")
    /\ stored.active_threads = <<>>
    /\ stored.observations = <<>>

\* C37: in every state saved on the way from a fresh state, each returned
\* turn raises total_exchange_count by one and appends one entry to
\* move_history, and nothing else changes either (so total_exchange_count is
\* the number of turns processed); move_history has exactly
\* total_exchange_count entries, last_move is the final entry of move_history
\* (no move while it is empty), and phase_exchange_count is at most
\* total_exchange_count.
C37_CountersAndHistoryAgree ==
    [][ /\ IF TurnReturns
           THEN /\ stored'.total_exchange_count = stored.total_exchange_count + 1
                /\ Len(stored'.move_history) = Len(stored.move_history) + 1
                /\ SubSeq(stored'.move_history, 1, Len(stored.move_history))
                       = stored.move_history
           ELSE /\ stored'.total_exchange_count = stored.total_exchange_count
                /\ stored'.move_history = stored.move_history
        /\ \A s \in {stored, stored'} :
              /\ s.total_exchange_count >= 0
              /\ Len(s.move_history) = s.total_exchange_count
              /\ IF s.move_history = <<>>
                 THEN s.last_move = None
                 ELSE s.last_move = s.move_history[Len(s.move_history)]
              /\ s.phase_exchange_count >= 0
              /\ s.phase_exchange_count <= s.total_exchange_count
      ]_vars

\* four turns were returned with differing moves, the last one after the
\* phase counter had been reset by a transition
C37_Witness ==
    /\ pc = "idle"
    /\ stored.total_exchange_count = 4
    /\ Len(stored.move_history) = 4
    /\ stored.move_history[3] # stored.move_history[4]
    /\ stored.last_move = stored.move_history[4]
    /\ stored.phase_exchange_count < stored.total_exchange_count
    /\ stored.current_phase # "opening"

\* C38: in every state reachable from a fresh state, saved or in the course
\* of a turn, ready_for_options is true exactly when current_phase is Closing.
C38_ReadyExactlyInClosing ==
    \A s \in {stored, state} :
        s.ready_for_options <=> (s.current_phase = "closing")

\* a turn was returned from Closing, entered on an earlier turn, with
\* ready_for_options reported true
C38_Witness ==
    /\ pc = "idle"
    /\ response # <<>>
    /\ stored.current_phase = "closing"
    /\ stored.phase_exchange_count >= 1
    /\ stored.ready_for_options
    /\ PsychologistResponse(response[1], stored).ready_for_options

\* C39: in the saved state and in the state of the running turn, before and
\* after every step, each tracked thread has first_mentioned_exchange <=
\* last_touched_exchange <= total_exchange_count, each surfaced observation
\* has surfaced_at_exchange <= total_exchange_count, and
\* last_synthesis_exchange <= total_exchange_count; and threads and
\* observations are never removed once added: every step keeps the threads
\* and observations of the saved state, and every step of a turn keeps those
\* of the turn's state, at their positions and under their ids and
\* topics / texts.
C39_StampsBoundedNothingRemoved ==
    [][ /\ \A s \in {stored, state, stored', state'} :
              /\ \A i \in 1..Len(s.active_threads) :
                    /\ s.active_threads[i].first_mentioned_exchange
                           <= s.active_threads[i].last_touched_exchange
                    /\ s.active_threads[i].last_touched_exchange
                           <= s.total_exchange_count
              /\ \A i \in 1..Len(s.observations) :
                    s.observations[i].surfaced
                        => s.observations[i].surfaced_at_exchange
                               <= s.total_exchange_count
              /\ s.last_synthesis_exchange <= s.total_exchange_count
        /\ \A pair \in {<<stored, stored'>>} \cup
                       (IF InTurn THEN {<<state, state'>>} ELSE {}) :
              /\ Len(pair[2].active_threads) >= Len(pair[1].active_threads)
              /\ \A i \in 1..Len(pair[1].active_threads) :
                    /\ pair[2].active_threads[i].id = pair[1].active_threads[i].id
                    /\ pair[2].active_threads[i].topic = pair[1].active_threads[i].topic
                    /\ pair[2].active_threads[i].first_mentioned_exchange
                           = pair[1].active_threads[i].first_mentioned_exchange
              /\ Len(pair[2].observations) >= Len(pair[1].observations)
              /\ \A i \in 1..Len(pair[1].observations) :
                    /\ pair[2].observations[i].id = pair[1].observations[i].id
                    /\ pair[2].observations[i].text = pair[1].observations[i].text
      ]_vars

\* a saved state with a thread touched after the exchange that first
\* mentioned it, an observation surfaced on an earlier exchange, a synthesis
\* recorded, and threads added by the rules and by the reply
C39_Witness ==
    /\ pc = "idle"
    /\ \E i \in 1..Len(stored.active_threads) :
          /\ stored.active_threads[i].first_mentioned_exchange
                 < stored.active_threads[i].last_touched_exchange
          /\ stored.active_threads[i].last_touched_exchange
                 = stored.total_exchange_count
    /\ \E i \in 1..Len(stored.observations) :
          /\ stored.observations[i].surfaced
          /\ stored.observations[i].surfaced_at_exchange >= 1
          /\ stored.observations[i].surfaced_at_exchange < stored.total_exchange_count
    /\ stored.last_synthesis_exchange >= 1
    /\ Len(stored.active_threads) >= 3

====
